---- MODULE Spec2Model ----
(***************************************************************************)
(* Model of the Vulkan renderer backend of rust-engine: bring-up and       *)
(* teardown (vulkan_init / vulkan_shutdown), the swapchain and its         *)
(* framebuffers, the per-frame protocol (begin_frame / update_object /     *)
(* end_frame as driven by RendererFrontend::draw_frame), the fences that   *)
(* guard the frame slots, and the per-object descriptor generations.       *)
(*                                                                         *)
(* GPU calls whose Err the code handles are inputs of the actions: each    *)
(* action draws the outcome of those calls from a small set.               *)
(***************************************************************************)
EXTENDS Integers, Sequences, FiniteSets, TLC

\* Option<T>: None is the empty set, Some(x) the singleton.
None == {}
Some(x) == {x}
IsSome(o) == o # {}

----------------------------------------------------------------------------
\* Bounds of the exploration.
MaxSubmits == 3
MaxCreates == 3
MaxObjects == 1
MaxDevices == 2
MaxBufferSize == 3
MaxBufferOps == 3
MaxExtent == 2
NumImages == 2

\* Program constants.
max_frames_in_flight == 2
RENDERER_MAX_IN_FLIGHT_FRAMES == 3
SamplerDescriptorIndex == 1

Slots == 0 .. (max_frames_in_flight - 1)
DescriptorFrames == 0 .. (RENDERER_MAX_IN_FLIGHT_FRAMES - 1)

\* u64::MAX does not fit the checker's integers: timeouts are symbolic.
TimeoutInfinite == "u64::MAX"
TimeoutZero == "0"

\* The timeout begin_frame passes to Fence::wait and to the acquire.
BeginFrameTimeoutZero == TimeoutZero
BeginFrameTimeout == TimeoutInfinite

----------------------------------------------------------------------------
\* vulkan_init: the steps in the order of the code.  "debugger" exists only
\* under cfg(debug_assertions).
AllInitSteps ==
    << "entry", "allocator", "instance", "debugger", "surface",
       "device_requirements", "physical_device", "device", "queues",
       "framebuffer_dimensions", "swapchain", "renderpass",
       "graphics_command_pool", "graphics_command_buffers",
       "swapchain_framebuffers", "sync_structures", "builtin_shaders",
       "objects_buffers", "test_upload" >>

\* vulkan_shutdown: the steps in the order of the code.
AllShutdownStepsSwapchainFirst ==
    << "wait_idle", "objects_buffers", "builtin_shaders", "sync_structures",
       "swapchain", "swapchain_framebuffers", "graphics_command_buffers",
       "graphics_command_pool", "renderpass", "queues",
       "device", "physical_device", "device_requirements", "surface",
       "debugger", "instance", "allocator", "entry" >>

AllShutdownSteps ==
    << "wait_idle", "objects_buffers", "builtin_shaders", "sync_structures",
       "swapchain_framebuffers", "graphics_command_buffers",
       "graphics_command_pool", "renderpass", "swapchain", "queues",
       "device", "physical_device", "device_requirements", "surface",
       "debugger", "instance", "allocator", "entry" >>

\* Steps that initialise nothing that has to be torn down:
\* framebuffer_dimensions_init only computes two integers, the test upload
\* only fills the buffers objects_buffers_init created.
NonComponentSteps == { "framebuffer_dimensions", "test_upload", "wait_idle" }

\* The objects created through the graphics API among the components.
GpuObjects ==
    { "instance", "debugger", "surface", "device", "swapchain", "renderpass",
      "graphics_command_pool", "graphics_command_buffers",
      "swapchain_framebuffers", "sync_structures", "builtin_shaders",
      "objects_buffers" }

RECURSIVE SeqFilter(_, _)
SeqFilter(s, drop) ==
    IF s = << >> THEN << >>
    ELSE IF Head(s) \in drop THEN SeqFilter(Tail(s), drop)
         ELSE << Head(s) >> \o SeqFilter(Tail(s), drop)

RECURSIVE Reverse(_)
Reverse(s) == IF s = << >> THEN << >> ELSE Reverse(Tail(s)) \o << Head(s) >>

Range(s) == { s[i] : i \in 1 .. Len(s) }

InitStepsOf(dbg) == IF dbg THEN AllInitSteps ELSE SeqFilter(AllInitSteps, {"debugger"})
ShutdownStepsOf(dbg) ==
    IF dbg THEN AllShutdownSteps ELSE SeqFilter(AllShutdownSteps, {"debugger"})

----------------------------------------------------------------------------
\* physical_device_init: the choice of the physical device.

\* What is_device_suitable reads of a physical device: the queue families
\* found, the completeness of the swapchain support (formats and present
\* modes), the VK_KHR_swapchain extension and the sampler_anisotropy feature.
FullDevice ==
    [ graphics_family |-> TRUE, present_family |-> TRUE, swapchain_complete |-> TRUE,
      swapchain_extension |-> TRUE, sampler_anisotropy |-> TRUE ]

\* The devices enumerated: a full one, the ones that lack one property, and
\* one that lacks the swapchain extension and the swapchain support.
DeviceKinds ==
    { FullDevice,
      [ FullDevice EXCEPT !.graphics_family = FALSE ],
      [ FullDevice EXCEPT !.present_family = FALSE ],
      [ FullDevice EXCEPT !.swapchain_complete = FALSE ],
      [ FullDevice EXCEPT !.swapchain_extension = FALSE ],
      [ FullDevice EXCEPT !.sampler_anisotropy = FALSE ],
      [ FullDevice EXCEPT !.swapchain_extension = FALSE, !.swapchain_complete = FALSE ] }

DeviceLists == UNION { [ 1 .. n -> DeviceKinds ] : n \in 0 .. MaxDevices }

\* is_device_suitable under DeviceRequirements::default(): every queue is
\* required (the compute and transfer requirements are tested on the
\* graphics family index), no discrete GPU is required.
is_device_suitable_without_extensions(d) ==
    /\ d.graphics_family /\ d.present_family
    /\ d.swapchain_complete
    /\ d.sampler_anisotropy

is_device_suitable(d) ==
    /\ d.graphics_family /\ d.present_family
    /\ d.swapchain_complete
    /\ d.swapchain_extension
    /\ d.sampler_anisotropy

\* physical_device_init: the first suitable device in enumeration order, an
\* error when the enumeration fails or no device is suitable.
physical_device_init(devices, enumerate_ok) ==
    LET suitable == { i \in 1 .. Len(devices) : is_device_suitable(devices[i]) } IN
    IF ~enumerate_ok \/ suitable = {}
    THEN [ res |-> "err", physical_device |-> None ]
    ELSE [ res |-> "ok",
           physical_device |-> Some(CHOOSE i \in suitable : \A j \in suitable : i <= j) ]

StepIndex(steps, name) == CHOOSE i \in 1 .. Len(steps) : steps[i] = name

----------------------------------------------------------------------------
VARIABLES
    debug_assertions,   \* build configuration
    phase,              \* "start", "running", "init_failed", "failed", "down", "shutdown_failed"
    pc,                 \* position of Application::run: "top" (loop test), "idle"
                        \* (events handled, frame not begun), "frame", "exited"
    app_state,          \* ApplicationState
    app_size,           \* << app.width, app.height >>
    is_resizable,       \* app.is_resizable
    live,               \* components initialised and not torn down
    initLog,            \* components in the order vulkan_init created them
    teardownLog,        \* steps in the order vulkan_shutdown ran them
    sc,                 \* the swapchain, its views, depth image and framebuffers
    image_index,        \* context.image_index
    current_frame,      \* context.current_frame
    has_framebuffer_been_resized,
    fences,             \* in_flight_fences: slot -> fence
    image_available_semaphores, \* slot -> whether the semaphore holds a signal
                        \* (of an acquire) that no queue submit has waited on
    cmd,                \* state of each slot's graphics command buffer
    cmd_calls,          \* slot -> calls recorded into its command buffer since
                        \* the slot's previous queue submit
    submitted,          \* number of queue submits so far (cycle numbers)
    slotCycle,          \* slot -> cycle last submitted with that slot's fence
    gpuDone,            \* cycles whose GPU work has completed
    observedDone,       \* cycles whose completion the CPU observed by a fence
    frame_number,
    generations,        \* object -> descriptor -> frame -> Option<u32>
    default_texture,    \* generation of the frontend's default texture
    last,               \* what the last operation did (history)
    command_buffer,     \* a command buffer driven through the CommandBuffer wrapper
    buffer,             \* a Buffer and what the last buffer operation did
    swapchain_extent,   \* the extent of the swapchain created last, and its inputs
    object_shaders,     \* the per-object state of the object shaders, the
                        \* descriptor sets of its pool and the texture drawn
    frame_resources,    \* the per-slot fences, semaphores and command buffers
    swapchain_image_count, \* the image count of the swapchain created last
    physical_device_selection, \* the devices enumerated and the one physical_device_init chose
    device_queues, \* the queue family indices and the queue create infos built from them
    upload, \* a destination buffer and what the last upload into it did
    texture_creation, \* what the last vulkan_create_texture recorded and left of its image
    renderer_frontend, \* the frame number and what each draw_frame of the frontend did
    event_system \* the EventSystem, the most recent call for each listener and code, and what the last call did

\* The state of the running engine.
engineVars ==
    << debug_assertions, is_resizable, phase, pc, app_state, app_size, live,
       initLog, teardownLog, sc, image_index, current_frame,
       has_framebuffer_been_resized, fences, image_available_semaphores, cmd,
       cmd_calls, submitted, slotCycle,
       gpuDone, observedDone, frame_number, generations, default_texture, last >>

\* The state of the components exercised on their own.
renderUnitVars ==
    << command_buffer, buffer, swapchain_extent, object_shaders, frame_resources >>

systemUnitVars == << swapchain_image_count, physical_device_selection, device_queues, upload, texture_creation, renderer_frontend, event_system >>

unitVars == << renderUnitVars, systemUnitVars >>

vars == << engineVars, unitVars >>

----------------------------------------------------------------------------
\* Swapchain.  Chains are numbered by creation; handler 0 is the null handle.
NullSwapchain ==
    [ handler |-> 0, liveChains |-> {}, liveViews |-> {}, liveDepth |-> {},
      fbFor |-> 0, fbState |-> "None", liveFbs |-> {},
      creates |-> 0, destroys |-> 0 ]

RecreateOutcomes == { "ok", "fail_swapchain", "fail_depth" }

\* swapchain_destroy_base: depth attachment, image views, swapchain handle.
swapchain_destroy_base(s) ==
    [ s EXCEPT !.liveDepth = @ \ {s.handler},
               !.liveViews = @ \ {s.handler},
               !.liveChains = @ \ {s.handler},
               !.destroys = @ + 1 ]

\* swapchain_create_base: create_swapchain, images, image views, depth image.
swapchain_create_base(s, outcome) ==
    IF outcome = "fail_swapchain" THEN s
    ELSE LET id == s.creates + 1 IN
         [ s EXCEPT !.handler = id,
                    !.liveChains = @ \cup {id},
                    !.liveViews = @ \cup {id},
                    !.liveDepth = IF outcome = "ok" THEN @ \cup {id} ELSE @,
                    !.creates = id ]

\* swapchain_recreate: destroy the base, then create a new one.
swapchain_recreate(s, outcome) ==
    swapchain_create_base(swapchain_destroy_base(s), outcome)

\* swapchain_framebuffers_shutdown: destroy the Running framebuffers, mark Idle.
swapchain_framebuffers_shutdown(s) ==
    IF s.fbState = "None" THEN s
    ELSE [ s EXCEPT !.liveFbs = IF s.fbState = "Running" THEN @ \ {s.fbFor} ELSE @,
                    !.fbState = "Idle" ]

\* swapchain_framebuffers_init: shutdown, then one framebuffer per image view
\* of the current chain.
swapchain_framebuffers_init(s) ==
    LET t == swapchain_framebuffers_shutdown(s) IN
    [ t EXCEPT !.fbFor = t.handler, !.fbState = "Running",
               !.liveFbs = @ \cup {t.handler} ]

----------------------------------------------------------------------------
\* Fences.  is_signaled is the CPU-side shadow kept by the Fence wrapper,
\* gpu the state of the Vulkan fence, pending whether a queue submit that
\* will signal it is outstanding.
NewFenceUnsignaled(is_signaled) ==
    [ is_signaled |-> FALSE, gpu |-> FALSE, pending |-> FALSE ]

NewFence(is_signaled) ==
    [ is_signaled |-> is_signaled, gpu |-> is_signaled, pending |-> FALSE ]

WaitOutcomes == { "ok", "timeout", "error" }

\* Whether wait_for_fences can return outcome w now: success needs the GPU
\* fence signaled (the call blocks until then), TIMEOUT needs a finite timeout.
WaitCanReturn(f, timeout, w) ==
    IF f.is_signaled THEN w = "ok"
    ELSE CASE w = "ok" -> f.gpu
           [] w = "timeout" -> timeout # TimeoutInfinite /\ ~f.gpu
           [] OTHER -> TRUE

\* Fence::wait: [fence, ret] with ret "true" / "false" for Ok(bool), "err".
Fence_wait(f, w) ==
    IF f.is_signaled THEN [ fence |-> f, ret |-> "true" ]
    ELSE CASE w = "ok" -> [ fence |-> [ f EXCEPT !.is_signaled = TRUE ], ret |-> "false" ]
           [] w = "timeout" -> [ fence |-> f, ret |-> "false" ]
           [] OTHER -> [ fence |-> f, ret |-> "err" ]

\* Fence::reset: reset_fences only when the shadow says signaled.
Fence_reset_keeps_shadow(f, ok) ==
    IF f.is_signaled
    THEN IF ok THEN [ fence |-> [ f EXCEPT !.gpu = FALSE ], ret |-> "ok" ]
         ELSE [ fence |-> f, ret |-> "err" ]
    ELSE [ fence |-> f, ret |-> "ok" ]

Fence_reset(f, ok) ==
    IF f.is_signaled
    THEN IF ok THEN [ fence |-> [ f EXCEPT !.is_signaled = FALSE, !.gpu = FALSE ], ret |-> "ok" ]
         ELSE [ fence |-> f, ret |-> "err" ]
    ELSE [ fence |-> f, ret |-> "ok" ]

----------------------------------------------------------------------------
\* begin_frame.

AcquireOutcomes == { "ok", "suboptimal", "out_of_date", "error" }
BeginFailPoints == { "none", "fence_reset", "cmd_reset", "cmd_begin", "renderpass_begin" }

\* image_index after a swapchain_create_base: reset to 0 once the handle exists.
ImageIndexAfterCreate(img, outcome) == IF outcome = "fail_swapchain" THEN img ELSE 0

\* The acquire results get_swapchain_next_image_index answers by a
\* recreation: Ok with is_suboptimal, and ERROR_OUT_OF_DATE_KHR.
AcquireNeedsRecreateOutOfDateOnly(acq) == acq = "out_of_date"
AcquireNeedsRecreate(acq) == acq \in { "suboptimal", "out_of_date" }

\* The acquire results that hand an image to the application and signal the
\* semaphore passed to the acquire: Ok, suboptimal or not.
AcquireSignalsSemaphore(acq) == acq \in { "ok", "suboptimal" }

\* get_swapchain_next_image_index: a suboptimal or out-of-date acquire
\* recreates the swapchain here and yields None.
get_swapchain_next_image_index(s, img, acq, idx, r) ==
    CASE acq = "ok" ->
           [ status |-> "ok", index |-> Some(idx), sc |-> s, image_index |-> img,
             recreations |-> 0 ]
      [] AcquireNeedsRecreate(acq) ->
           [ status |-> IF r = "ok" THEN "ok" ELSE "err", index |-> None,
             sc |-> swapchain_recreate(s, r),
             image_index |-> ImageIndexAfterCreate(img, r), recreations |-> 1 ]
      [] OTHER ->
           [ status |-> "err", index |-> None, sc |-> s, image_index |-> img,
             recreations |-> 0 ]

\* "if self.context.has_framebuffer_been_resized": the test that opens
\* begin_frame.
ResizePendingNever(flag) == FALSE
ResizePending(flag) == flag

\* The calls begin_frame records into the slot's command buffer once the
\* fence is reset, up to the call that fails.
BeginFrameCommandCallsWithoutReset(fail) ==
    CASE fail = "cmd_reset" -> << >>
      [] fail = "cmd_begin" -> << >>
      [] fail = "renderpass_begin" -> << "begin" >>
      [] OTHER -> << "begin", "renderpass_begin" >>

BeginFrameCommandCalls(fail) ==
    CASE fail = "cmd_reset" -> << >>
      [] fail = "cmd_begin" -> << "reset" >>
      [] fail = "renderpass_begin" -> << "reset", "begin" >>
      [] OTHER -> << "reset", "begin", "renderpass_begin" >>

\* The whole of begin_frame as a function of the context and of the outcomes
\* of the GPU calls: w the fence wait, acq/idx the acquire, r1 the first
\* swapchain recreation of the call, r2 the second, fail the later call that
\* fails.  c is the state of the slot's command buffer.
begin_frame(flag, s, f, img, c, w, acq, idx, r1, r2, fail) ==
    LET base == [ res |-> "error", sc |-> s, fence |-> f, image_index |-> img,
                  flag |-> flag, cmd |-> c, waited |-> FALSE,
                  observedSignaled |-> FALSE, acquired |-> FALSE,
                  acquire_called |-> FALSE,
                  recorded |-> FALSE, recreations |-> 0, calls |-> << >> ]
    IN
    IF ResizePending(flag)
    THEN LET b1 == [ base EXCEPT !.sc = swapchain_recreate(s, r1),
                                 !.image_index = ImageIndexAfterCreate(img, r1),
                                 !.recreations = 1 ]
         IN IF r1 # "ok" THEN b1
            ELSE [ b1 EXCEPT !.res = "skip", !.flag = FALSE ]
    ELSE
    LET wr == Fence_wait(f, w)
        b2 == [ base EXCEPT !.fence = wr.fence, !.waited = TRUE,
                            !.observedSignaled = (wr.ret # "err" /\ f.gpu) ]
    IN
    IF wr.ret = "err" THEN b2
    ELSE
    LET ar == get_swapchain_next_image_index(s, img, acq, idx, r1)
        b3 == [ b2 EXCEPT !.sc = ar.sc, !.image_index = ar.image_index,
                          !.acquired = AcquireSignalsSemaphore(acq),
                          !.acquire_called = TRUE,
                          !.recreations = ar.recreations ]
    IN
    IF ar.status = "err" THEN b3
    ELSE IF ar.index = None
    THEN [ b3 EXCEPT !.sc = swapchain_recreate(ar.sc, r2),
                     !.image_index = ImageIndexAfterCreate(ar.image_index, r2),
                     !.recreations = @ + 1,
                     !.res = IF r2 = "ok" THEN "skip" ELSE "error" ]
    ELSE
    LET fr == Fence_reset(b3.fence, fail # "fence_reset")
        b4 == [ b3 EXCEPT !.image_index = idx, !.fence = fr.fence ]
    IN
    IF fr.ret = "err" THEN b4
    ELSE
    LET b5 == [ b4 EXCEPT !.recorded = TRUE, !.calls = BeginFrameCommandCalls(fail) ]
    IN CASE fail = "cmd_reset" -> b5
         [] fail = "cmd_begin" -> [ b5 EXCEPT !.cmd = "initial" ]
         [] fail = "renderpass_begin" -> [ b5 EXCEPT !.cmd = "recording" ]
         [] OTHER -> [ b5 EXCEPT !.cmd = "in_renderpass", !.res = "proceed" ]

----------------------------------------------------------------------------
\* end_frame.

PresentOutcomes == { "ok", "suboptimal", "out_of_date", "error" }
EndFailPoints == { "none", "cmd_end", "submit" }

\* The present results present_swapchain answers by a recreation: Ok with
\* is_suboptimal, and ERROR_OUT_OF_DATE_KHR.
PresentNeedsRecreateOutOfDateOnly(p) == p = "out_of_date"
PresentNeedsRecreate(p) == p \in { "suboptimal", "out_of_date" }

\* present_swapchain: a suboptimal or out-of-date present recreates the
\* swapchain here and is a success.
present_swapchain(s, img, p, r) ==
    CASE p = "ok" -> [ status |-> "ok", sc |-> s, image_index |-> img, recreations |-> 0 ]
      [] PresentNeedsRecreate(p) ->
           [ status |-> IF r = "ok" THEN "ok" ELSE "err",
             sc |-> swapchain_recreate(s, r),
             image_index |-> ImageIndexAfterCreate(img, r), recreations |-> 1 ]
      [] OTHER -> [ status |-> "err", sc |-> s, image_index |-> img, recreations |-> 0 ]

\* The calls end_frame records into the slot's command buffer, up to the
\* call that fails.
EndFrameCommandCalls(fail) ==
    IF fail = "cmd_end" THEN << "renderpass_end" >>
    ELSE << "renderpass_end", "end" >>

end_frame(s, f, img, p, r, fail) ==
    LET base == [ res |-> "error", sc |-> s, fence |-> f, image_index |-> img,
                  cmd |-> "recording", submit |-> FALSE, presented |-> FALSE,
                  recreations |-> 0, calls |-> EndFrameCommandCalls(fail) ]
    IN
    IF fail = "cmd_end" THEN base
    ELSE IF fail = "submit" THEN [ base EXCEPT !.cmd = "executable" ]
    ELSE
    LET pr == present_swapchain(s, img, p, r)
        b1 == [ base EXCEPT !.cmd = "pending", !.submit = TRUE,
                            !.fence = [ f EXCEPT !.pending = TRUE ],
                            !.sc = pr.sc, !.image_index = pr.image_index,
                            !.presented = (p # "error"),
                            !.recreations = pr.recreations ]
    IN IF pr.status = "err" THEN b1 ELSE [ b1 EXCEPT !.res = "ok" ]

----------------------------------------------------------------------------
\* update_object_shaders.

Objects == 0 .. (MaxObjects - 1)

\* A draw request's object id: None, a valid id, or one past the last state.
ObjectIdInputs == { None } \cup { Some(i) : i \in 0 .. MaxObjects }

\* The generations vulkan_create_texture gives: None (is_default) or Some(0).
TextureGenerations == { None, Some(0) }

\* vulkan_create_texture: the generation of the texture it creates.
vulkan_create_texture(is_default) == IF is_default THEN None ELSE Some(0)

\* load_texture: the generation of the texture loaded from a file, created
\* with is_default set when the frontend's default texture (of generation
\* default_gen) carries a generation.
load_texture(default_gen) == vulkan_create_texture(IsSome(default_gen))

\* data.textures[0]: no texture, or a texture with its generation.
TextureInputs ==
    { [ present |-> FALSE, generation |-> None ] }
    \cup { [ present |-> TRUE, generation |-> g ] : g \in TextureGenerations }

NoGenerations ==
    [ o \in Objects |-> [ d \in 0 .. 1 |-> [ fr \in DescriptorFrames |-> None ] ] ]

\* "Check if the descriptor needs updating first".
SamplerNeedsUpdateAlways(texture_generation, generation, is_default_texture) == TRUE

SamplerNeedsUpdate(texture_generation, generation, is_default_texture) ==
    texture_generation # generation \/ is_default_texture

\* The whole of update_object_shaders: gens the descriptor generations, cf
\* the frame slot, default_gen the generation of the frontend's default
\* texture, load_ok the outcome of load_data_into_buffer.
update_object_shaders(gens, object_id, texture, default_gen, cf, load_ok) ==
    LET base == [ res |-> "error", gens |-> gens, push_constants |-> TRUE,
                  ubo_writes |-> 0, sampler_writes |-> 0, bound |-> FALSE,
                  recorded_before |-> None, used_generation |-> None ]
    IN
    IF object_id = None THEN base
    ELSE LET id == CHOOSE i \in object_id : TRUE IN
    IF id \notin DOMAIN gens THEN base
    ELSE IF ~load_ok THEN base
    ELSE
    LET ubo_write == (gens[id][0][cf] = None)
        g0 == IF ubo_write THEN [ gens EXCEPT ![id][0][cf] = Some(1) ] ELSE gens
        generation == g0[id][SamplerDescriptorIndex][cf]
        is_default_texture == texture.present /\ texture.generation = None
        g1 == IF is_default_texture
              THEN [ g0 EXCEPT ![id][SamplerDescriptorIndex][cf] = None ] ELSE g0
        used == IF is_default_texture THEN default_gen ELSE texture.generation
        write == texture.present /\ SamplerNeedsUpdate(used, generation, is_default_texture)
        g2 == IF write /\ IsSome(used)
              THEN [ g1 EXCEPT ![id][SamplerDescriptorIndex][cf] = used ] ELSE g1
    IN [ base EXCEPT !.res = "ok", !.gens = g2,
                     !.ubo_writes = IF ubo_write THEN 1 ELSE 0,
                     !.sampler_writes = IF write THEN 1 ELSE 0,
                     !.bound = TRUE,
                     !.recorded_before = generation,
                     !.used_generation = used ]

----------------------------------------------------------------------------
\* The application: window sizes and the resize listener.

InitialSize == << 1280, 720 >>
WindowSizes == { << 0, 0 >>, << 0, 720 >>, << 1280, 720 >>, << 800, 600 >> }

\* ApplicationOnResizedListener::on_event_callback up to the call of
\* renderer.resize: the new state and size of the application, and whether
\* the renderer is asked to resize.
on_event_callback(resizable, state, size, width, height) ==
    IF ~resizable \/ size = << width, height >>
    THEN [ state |-> state, size |-> size, renderer_resize |-> FALSE ]
    ELSE IF width = 0 \/ height = 0
    THEN [ state |-> "Suspended", size |-> << width, height >>,
           renderer_resize |-> FALSE ]
    ELSE [ state |-> IF state = "Suspended" THEN "Running" ELSE state,
           size |-> << width, height >>, renderer_resize |-> TRUE ]

----------------------------------------------------------------------------
\* The CommandBuffer wrapper and the render pass calls that record into a
\* command buffer.  The wrapper holds the handle only: `state' below is the
\* lifecycle state the Vulkan implementation keeps for the buffer.

MaxCommandCalls == 4

CommandCalls == { "reset", "begin", "renderpass_begin", "renderpass_end", "end" }

\* A freshly allocated command buffer, no call made yet.
AllocatedCommandBuffer ==
    [ state |-> "initial", calls |-> 0, call |-> "none", legal |-> TRUE,
      res |-> "ok", gpu_calls |-> 0, render_area |-> None, framebuffer |-> None ]

\* Whether a call is in the legal sequence for a buffer in lifecycle state s.
CallIsLegal(s, call) ==
    CASE call = "reset" -> s \in { "initial", "recording", "executable", "invalid" }
      [] call = "begin" -> s = "initial"
      [] call = "renderpass_begin" -> s = "recording"
      [] call = "renderpass_end" -> s = "in_renderpass"
      [] OTHER -> s = "recording"

\* The lifecycle state after a legal call that succeeded.
StateAfter(call) ==
    CASE call = "reset" -> "initial"
      [] call = "begin" -> "recording"
      [] call = "renderpass_begin" -> "in_renderpass"
      [] call = "renderpass_end" -> "recording"
      [] OTHER -> "executable"

\* The results a wrapper call can return: reset, begin and end return the
\* VkResult of the Vulkan call they forward (whatever the implementation
\* answers when the call breaks the valid usage); the render pass calls
\* forward to commands without a result and return Ok.
CallResults(s, call, gpu_ok) ==
    IF call \in { "renderpass_begin", "renderpass_end" } THEN "ok"
    ELSE IF gpu_ok THEN "ok" ELSE "err"

\* One call of the wrapper on buffer cb: the Vulkan call is issued whatever
\* the state of the buffer.
CommandBuffer_call(cb, call, gpu_ok) ==
    LET legal == CallIsLegal(cb.state, call)
        res == CallResults(cb.state, call, gpu_ok)
    IN [ state |-> IF legal /\ res = "ok" THEN StateAfter(call) ELSE "invalid",
         calls |-> cb.calls + 1, call |-> call, legal |-> legal,
         res |-> res, gpu_calls |-> 1, render_area |-> None, framebuffer |-> None ]

\* The render areas of a Renderpass: renderpass_init puts the origin at (0, 0).
RenderAreas ==
    { [ x |-> 0, y |-> 0, width |-> w, height |-> h ] :
        w \in { 800, 1280 }, h \in { 600, 720 } }

\* The values of framebuffer_width and framebuffer_height.
FramebufferSizes == { << 800, 600 >>, << 1280, 720 >> }

\* The test that opens renderpass_begin.
RenderAreaExceedsWidthOnly(render_area, framebuffer_width, framebuffer_height) ==
    render_area.width > framebuffer_width

RenderAreaExceeds(render_area, framebuffer_width, framebuffer_height) ==
    \/ render_area.width > framebuffer_width
    \/ render_area.height > framebuffer_height

\* renderpass_begin: rejected before any Vulkan call when the render area is
\* bigger than the framebuffer, else cmd_begin_render_pass is recorded.
renderpass_begin(cb, render_area, framebuffer_width, framebuffer_height) ==
    LET called == [ CommandBuffer_call(cb, "renderpass_begin", TRUE) EXCEPT
                      !.render_area = Some(render_area),
                      !.framebuffer = Some(<< framebuffer_width, framebuffer_height >>) ]
    IN IF RenderAreaExceeds(render_area, framebuffer_width, framebuffer_height)
       THEN [ called EXCEPT !.state = cb.state, !.res = "err", !.gpu_calls = 0 ]
       ELSE called

----------------------------------------------------------------------------
\* Buffers.  A Buffer is its size, the size of the memory allocated for it
\* and the bytes of that memory.

Bytes == { 0, 1 }
BufferSizes == 1 .. MaxBufferSize

\* get_buffer_memory_requirements: the size the device asks for a buffer of
\* the given size, the size itself or more (alignment).
MemoryRequirementSizes(size) == { size, size + 1 }

NoBuffer ==
    [ buf |-> None, ops |-> 0, op |-> "none", res |-> "ok", before |-> None,
      new_size |-> 0 ]

\* create_buffer: memory of the size required by the buffer, not yet written.
create_buffer(size, memory_size, fill) ==
    [ total_size |-> size, memory_size |-> memory_size,
      data |-> [ i \in 1 .. memory_size |-> fill ] ]

\* load_data_into_buffer at offset 0 for the whole of the buffer.
load_data_into_buffer(b, bytes) ==
    [ b EXCEPT !.data = [ i \in 1 .. b.memory_size |->
                            IF i <= Len(bytes) THEN bytes[i] ELSE b.data[i] ] ]

ResizeFailPoints == { "none", "create", "allocate", "bind", "copy", "wait_idle" }

\* resize_buffer: a new buffer of new_size, new memory of the size the old
\* buffer requires, the copy of the total_size bytes of the old buffer from
\* offset 0, then the old buffer destroyed.  fill is the content of fresh
\* memory, clipped whether the device cuts a copy that runs past the end of
\* the destination buffer.
resize_buffer(b, new_size, fill, clipped, fail) ==
    IF fail # "none" THEN [ res |-> "err", buffer |-> None ]
    ELSE
    LET memory_size == b.memory_size
        copy_size == b.total_size
        written == IF clipped /\ copy_size > new_size THEN new_size ELSE copy_size
    IN [ res |-> "ok",
         buffer |-> Some([ total_size |-> new_size, memory_size |-> memory_size,
                           data |-> [ i \in 1 .. memory_size |->
                                        IF i <= written THEN b.data[i] ELSE fill ] ]) ]

----------------------------------------------------------------------------
\* The extent of a swapchain.

Min(a, b) == IF a <= b THEN a ELSE b
Max(a, b) == IF a >= b THEN a ELSE b

Extents == { [ width |-> w, height |-> h ] : w \in 0 .. MaxExtent, h \in 0 .. MaxExtent }

\* The surface capabilities a device reports: the minimum image extent is
\* within the maximum one.
SurfaceCapabilities ==
    { c \in [ min_image_extent : Extents, max_image_extent : Extents ] :
        /\ c.min_image_extent.width <= c.max_image_extent.width
        /\ c.min_image_extent.height <= c.max_image_extent.height }

\* swpachain_create_extent: the requested size clamped between min_extent
\* and max_extent, both read from min_image_extent.
swpachain_create_extent_unclamped(width, height, supported_capabilities) ==
    [ width |-> width, height |-> height ]

swpachain_create_extent(width, height, supported_capabilities) ==
    LET min_extent == supported_capabilities.min_image_extent
        max_extent == supported_capabilities.min_image_extent
    IN [ width |-> Min(max_extent.width, Max(min_extent.width, width)),
         height |-> Min(max_extent.height, Max(min_extent.height, height)) ]

\* The image counts a surface reports: at least one image, and a maximum that
\* is either 0 (no limit) or at least the minimum.
MaxImageCount == 8

ImageCountCapabilities ==
    { c \in [ min_image_count : 1 .. MaxImageCount, max_image_count : 0 .. MaxImageCount ] :
        c.max_image_count = 0 \/ c.min_image_count <= c.max_image_count }

\* swapchain_create_image_count: one image more than the minimum, capped by
\* the maximum when the surface reports one.
swapchain_create_image_count_uncapped(supported_capabilities) ==
    supported_capabilities.min_image_count + 1

swapchain_create_image_count(supported_capabilities) ==
    LET image_count == supported_capabilities.min_image_count + 1
    IN IF supported_capabilities.max_image_count > 0
       THEN Min(image_count, supported_capabilities.max_image_count)
       ELSE image_count

NoSwapchainImageCount == [ creates |-> 0, capabilities |-> None, image_count |-> None ]

\* The image count swapchain_create_base asks for, the surface capabilities
\* being queried again at each creation.
ImageCountOfCreateBase(s, capabilities) ==
    [ creates |-> s.creates + 1,
      capabilities |-> Some(capabilities),
      image_count |-> Some(swapchain_create_image_count(capabilities)) ]

NoSwapchainExtent ==
    [ creates |-> 0, requested |-> None, capabilities |-> None, extent |-> None ]

\* The extent swapchain_create_base gives the swapchain it creates, the
\* surface capabilities being queried again at each creation.
ExtentOfCreateBase(e, width, height, capabilities) ==
    [ creates |-> e.creates + 1,
      requested |-> Some([ width |-> width, height |-> height ]),
      capabilities |-> Some(capabilities),
      extent |-> Some(swpachain_create_extent(width, height, capabilities)) ]

----------------------------------------------------------------------------
\* The object shaders: the table of per-object states, the descriptor sets
\* allocated from the per-object pool, and the texture the frontend hands to
\* update_object (its default texture).  Descriptor sets and textures are
\* numbered by creation; 0 is the null descriptor set.

MaxObjectStates == 2
MaxObjectOps == 5

ObjectStates == 0 .. (MaxObjectStates - 1)
NullDescriptorSet == 0

\* The object ids handed to release and update: None (update only), the ids
\* of the table and one past its end.
ObjectShaderIds == 0 .. MaxObjectStates

NoObjectGenerations ==
    [ d \in 0 .. 1 |-> [ fr \in DescriptorFrames |-> None ] ]

\* ObjectShaders after object_shaders_init and init_default_texture: default
\* object states, the default texture (created with is_default) current.
NewObjectShaders ==
    [ object_uniform_buffer_index |-> 0,
      descriptor_sets |-> [ o \in ObjectStates |->
                             [ fr \in DescriptorFrames |-> NullDescriptorSet ] ],
      generations |-> [ o \in ObjectStates |-> NoObjectGenerations ],
      owned |-> [ o \in ObjectStates |-> {} ],
      allocations |-> 0,
      sampler_texture |-> [ o \in ObjectStates |-> [ fr \in DescriptorFrames |-> -1 ] ],
      texture |-> [ id |-> 0, generation |-> vulkan_create_texture(TRUE) ],
      ops |-> 0,
      last |-> [ op |-> "none" ] ]

\* "state.descriptor_sets[..N].copy_from_slice(&descriptor_sets[..N])".
StoreDescriptorSetsFirstOnly(sets) == [ fr \in DescriptorFrames |-> sets[1] ]

StoreDescriptorSets(sets) == [ fr \in DescriptorFrames |-> sets[fr + 1] ]

\* object_shader_acquire_resources: the next object id (the index is
\* incremented before the state is looked up), its generations reset, and
\* RENDERER_MAX_IN_FLIGHT_FRAMES descriptor sets allocated and stored.
object_shader_acquire_resources(os, alloc_ok) ==
    LET object_id == os.object_uniform_buffer_index
        os1 == [ os EXCEPT !.object_uniform_buffer_index = @ + 1 ]
    IN
    IF object_id \notin DOMAIN os.generations
    THEN [ res |-> "err", object_id |-> None, os |-> os1 ]
    ELSE
    LET os2 == [ os1 EXCEPT !.generations[object_id] = NoObjectGenerations ] IN
    IF ~alloc_ok THEN [ res |-> "err", object_id |-> None, os |-> os2 ]
    ELSE
    LET sets == [ i \in 1 .. RENDERER_MAX_IN_FLIGHT_FRAMES |-> os.allocations + i ]
    IN [ res |-> "ok", object_id |-> Some(object_id),
         os |-> [ os2 EXCEPT !.descriptor_sets[object_id] = StoreDescriptorSets(sets),
                             !.owned[object_id] = Range(sets),
                             !.allocations = @ + RENDERER_MAX_IN_FLIGHT_FRAMES ] ]

\* object_shader_release_resources: the descriptor sets of the state are
\* freed and its generations reset; the handles stay in the state.
object_shader_release_resources(os, object_id, free_ok) ==
    IF object_id \notin DOMAIN os.generations THEN [ res |-> "err", os |-> os ]
    ELSE IF ~free_ok THEN [ res |-> "err", os |-> os ]
    ELSE [ res |-> "ok",
           os |-> [ os EXCEPT !.owned[object_id] = {},
                              !.sampler_texture[object_id] =
                                  [ fr \in DescriptorFrames |-> -1 ],
                              !.generations[object_id] = NoObjectGenerations ] ]

----------------------------------------------------------------------------
\* The per-slot resources: sync_structures_init creates, for each of the
\* max_frames_in_flight slots, an image-available semaphore, a queue-complete
\* semaphore and a fence; graphics_command_buffers_init allocates one command
\* buffer per swapchain image.  Handles are numbered by creation.

NoFrameResources ==
    [ initialised |-> FALSE, image_available_semaphores |-> << >>,
      queue_complete_semaphores |-> << >>, in_flight_fences |-> << >>,
      graphics_command_buffers |-> << >> ]

graphics_command_buffers_init(fr, nb_image_in_swapchain) ==
    [ fr EXCEPT !.graphics_command_buffers = [ i \in 1 .. nb_image_in_swapchain |-> i ] ]

sync_structures_init(fr) ==
    [ fr EXCEPT !.image_available_semaphores =
                    [ i \in 1 .. max_frames_in_flight |-> 2 * i - 1 ],
                !.queue_complete_semaphores =
                    [ i \in 1 .. max_frames_in_flight |-> 2 * i ],
                !.in_flight_fences = [ i \in 1 .. max_frames_in_flight |-> i ],
                !.initialised = TRUE ]

\* What queue_family_properties_init and the queries of is_device_suitable
\* find of a physical device.
FullPhysicalDeviceInfo ==
    [ graphics_family |-> TRUE, present_family |-> TRUE, compute_family |-> TRUE,
      transfer_family |-> TRUE, swapchain_complete |-> TRUE,
      swapchain_extension |-> TRUE, sampler_anisotropy |-> TRUE ]

PhysicalDeviceInfos ==
    { FullPhysicalDeviceInfo,
      [ FullPhysicalDeviceInfo EXCEPT !.graphics_family = FALSE ],
      [ FullPhysicalDeviceInfo EXCEPT !.present_family = FALSE ],
      [ FullPhysicalDeviceInfo EXCEPT !.compute_family = FALSE ],
      [ FullPhysicalDeviceInfo EXCEPT !.transfer_family = FALSE ],
      [ FullPhysicalDeviceInfo EXCEPT !.swapchain_complete = FALSE ],
      [ FullPhysicalDeviceInfo EXCEPT !.swapchain_extension = FALSE ],
      [ FullPhysicalDeviceInfo EXCEPT !.sampler_anisotropy = FALSE ] }

PhysicalDeviceLists == UNION { [ 1 .. n -> PhysicalDeviceInfos ] : n \in 0 .. MaxDevices }

NoPhysicalDeviceSelection ==
    [ op |-> "none", devices |-> << >>, res |-> "none", physical_device |-> None ]

QueueFamilies == 4

QueueFamilyIndices == { None } \cup { Some(i) : i \in 0 .. (QueueFamilies - 1) }

\* Option::unwrap
unwrap(o) == CHOOSE x \in o : TRUE

\* get_device_queue_create_infos: the family index of each create info, in
\* order; a panic when an index that is unwrapped is None.
get_device_queue_create_infos(graphics_family_index, present_family_index, transfer_family_index) ==
    LET present_shares_graphics_queue == graphics_family_index = present_family_index
        transfer_shares_graphics_queue == graphics_family_index = transfer_family_index
        panics == \/ graphics_family_index = None
                  \/ ~present_shares_graphics_queue /\ present_family_index = None
                  \/ ~transfer_shares_graphics_queue /\ transfer_family_index = None
    IN IF panics
       THEN [ res |-> "panic", queue_create_infos |-> << >> ]
       ELSE [ res |-> "ok",
              queue_create_infos |->
                  << unwrap(graphics_family_index) >>
                  \o (IF present_shares_graphics_queue THEN << >>
                      ELSE << unwrap(present_family_index) >>)
                  \o (IF transfer_shares_graphics_queue THEN << >>
                      ELSE << unwrap(transfer_family_index) >>) ]

NoDeviceQueues ==
    [ op |-> "none", graphics_family_index |-> None, present_family_index |-> None,
      transfer_family_index |-> None, res |-> "none", queue_create_infos |-> << >> ]

----------------------------------------------------------------------------
\* Uploads into a buffer.  The destination is its memory flags, its size and
\* its bytes; byte i of the model is the byte at offset i - 1.

MemoryFlags == { "DEVICE_LOCAL", "HOST_VISIBLE" }

UploadFailPoints == { "none", "create", "map", "copy" }

NoUpload ==
    [ dst |-> None, ops |-> 0, op |-> "none", res |-> "ok", before |-> None,
      offset |-> 0, size |-> 0, data |-> << >>,
      staging_created |-> 0, staging_destroyed |-> 0, copy_commands |-> 0,
      staging_size |-> 0, staging_mapped |-> {} ]

\* load_data_into_buffer(buffer, offset, size, data): the memory of the
\* buffer mapped over [offset, offset + size) and the size bytes of data
\* copied to the mapping; the bytes of the range that lie in the memory
\* allocated are written.
load_data_into_buffer_range(b, offset, size, data) ==
    [ b EXCEPT !.data = [ i \in DOMAIN b.data |->
                            IF offset < i /\ i <= offset + size
                            THEN data[i - offset] ELSE b.data[i] ] ]

\* copy_buffer_to: size bytes from src_offset of the source to dst_offset of
\* the destination, by one copy command on a one-time command buffer.
copy_buffer_to(src, src_offset, dst, dst_offset, size) ==
    [ dst EXCEPT !.data = [ i \in DOMAIN dst.data |->
                              IF dst_offset < i /\ i <= dst_offset + size
                              THEN src.data[i - dst_offset + src_offset]
                              ELSE dst.data[i] ] ]

\* upload_data_range: a staging buffer of size bytes is created, data is
\* loaded into it through a mapping at offset, its first size bytes are
\* copied to offset of the destination, and it is destroyed.  An error
\* returns at once.  memory_size and fill are the size and the content of
\* the memory allocated for the staging buffer.
upload_data_range(dst, offset, size, data, memory_size, fill, fail) ==
    LET staging_buffer == create_buffer(size, memory_size, fill)
        loaded == load_data_into_buffer_range(staging_buffer, offset, size, data)
        created == IF fail = "create" THEN 0 ELSE 1
        mapped == IF fail = "create" THEN {} ELSE (offset + 1) .. (offset + size)
    IN [ res |-> IF fail = "none" THEN "ok" ELSE "err",
         dst |-> IF fail = "none" THEN copy_buffer_to(loaded, 0, dst, offset, size) ELSE dst,
         staging_created |-> created,
         staging_size |-> IF fail = "create" THEN 0 ELSE size,
         staging_mapped |-> mapped,
         copy_commands |-> IF fail \in { "none", "copy" } THEN 1 ELSE 0,
         staging_destroyed |-> IF fail = "none" THEN 1 ELSE 0 ]

----------------------------------------------------------------------------
\* The creation of a texture: the commands recorded on the one-time command
\* buffer and the layout of the image once the queue has executed them.

TextureFailPoints ==
    { "none", "create_staging", "load_data", "create_image", "allocate_and_begin",
      "end", "queue_submit", "queue_wait_idle", "create_sampler" }

\* The steps of vulkan_create_texture in order; a failing step returns the
\* error at once.
TextureSteps ==
    << "create_staging", "load_data", "create_image", "allocate_and_begin",
       "transition_to_transfer_dst", "copy_image_from_buffer",
       "transition_to_shader_read_only", "end", "queue_submit", "queue_wait_idle",
       "create_sampler", "destroy_staging" >>

\* Whether the step is reached and succeeds when fail is the step that fails.
TextureStepDone(step, fail) ==
    fail = "none" \/ StepIndex(TextureSteps, step) < StepIndex(TextureSteps, fail)

\* transition_image_layout: the barrier describing the transition is built,
\* and cmd_pipeline_barrier is recorded with the stages of the transition and
\* an empty list of image memory barriers.
transition_image_layout(old_layout, new_layout) ==
    LET barrier == [ old_layout |-> old_layout, new_layout |-> new_layout ]
        image_memory_barriers == << >>
        supported ==
            \/ old_layout = "UNDEFINED" /\ new_layout = "TRANSFER_DST_OPTIMAL"
            \/ old_layout = "TRANSFER_DST_OPTIMAL" /\ new_layout = "SHADER_READ_ONLY_OPTIMAL"
    IN [ res |-> IF supported THEN "ok" ELSE "err",
         commands |->
            IF supported
            THEN << [ command |-> "cmd_pipeline_barrier",
                      src_stage |-> IF old_layout = "UNDEFINED"
                                    THEN "TOP_OF_PIPE" ELSE "TRANSFER",
                      dst_stage |-> IF old_layout = "UNDEFINED"
                                    THEN "TRANSFER" ELSE "FRAGMENT_SHADER",
                      image_memory_barriers |-> image_memory_barriers ] >>
            ELSE << >> ]

\* copy_image_from_buffer: cmd_copy_buffer_to_image, the image declared in
\* the transfer-destination layout.
copy_image_from_buffer ==
    << [ command |-> "cmd_copy_buffer_to_image", src_stage |-> "TRANSFER",
         dst_stage |-> "TRANSFER", image_memory_barriers |-> << >> ] >>

\* The layout of an image after the queue has executed the commands: each
\* image memory barrier of a pipeline barrier moves the image to its new
\* layout.
RECURSIVE LayoutAfter(_, _)
LayoutAfter(layout, commands) ==
    IF commands = << >> THEN layout
    ELSE LET barriers == Head(commands).image_memory_barriers
         IN LayoutAfter(IF barriers = << >> THEN layout
                        ELSE barriers[Len(barriers)].new_layout,
                        Tail(commands))

NoTextureCreation ==
    [ creates |-> 0, op |-> "none", res |-> "ok", is_default |-> FALSE,
      image_size |-> 0, commands |-> << >>, submitted |-> FALSE, waited |-> FALSE,
      image_layout |-> "none", staging_destroyed |-> FALSE, generation |-> None ]

\* vulkan_create_texture up to the Texture it returns.
vulkan_create_texture_steps(t, is_default, image_size, fail) ==
    LET to_dst == transition_image_layout("UNDEFINED", "TRANSFER_DST_OPTIMAL")
        to_read == transition_image_layout("TRANSFER_DST_OPTIMAL", "SHADER_READ_ONLY_OPTIMAL")
        commands ==
            IF TextureStepDone("allocate_and_begin", fail)
            THEN to_dst.commands \o copy_image_from_buffer \o to_read.commands
            ELSE << >>
        queue_submitted == TextureStepDone("queue_submit", fail)
    IN [ creates |-> t.creates + 1, op |-> "vulkan_create_texture",
         res |-> IF fail = "none" THEN "ok" ELSE "err",
         is_default |-> is_default, image_size |-> image_size,
         commands |-> commands,
         submitted |-> queue_submitted,
         waited |-> TextureStepDone("queue_wait_idle", fail),
         image_layout |->
            IF ~TextureStepDone("create_image", fail) THEN "none"
            ELSE IF queue_submitted THEN LayoutAfter("UNDEFINED", commands)
            ELSE "UNDEFINED",
         staging_destroyed |-> fail = "none",
         generation |-> IF fail = "none" THEN vulkan_create_texture(is_default) ELSE None ]

----------------------------------------------------------------------------
\* The frames of the renderer frontend.  The backend is what its calls
\* return.

MaxDrawFrames == 6

\* What RendererBackend::begin_frame returns: Ok(true), Ok(false) or an error.
BeginFrameResults == { "true", "false", "err" }

\* RendererFrontend::end_frame: the backend's end_frame, then
\* increase_frame_number.
RendererFrontend_end_frame_without_increase(frame_number_before, end_ok) ==
    [ res |-> IF end_ok THEN "ok" ELSE "err",
      calls |-> << "end_frame" >>,
      frame_number |-> frame_number_before ]

RendererFrontend_end_frame(frame_number_before, end_ok) ==
    IF end_ok
    THEN [ res |-> "ok", calls |-> << "end_frame", "increase_frame_number" >>,
           frame_number |-> frame_number_before + 1 ]
    ELSE [ res |-> "err", calls |-> << "end_frame" >>,
           frame_number |-> frame_number_before ]

\* RendererFrontend::draw_frame: the backend calls it makes, its result and
\* the frame number it leaves.
draw_frame(frame_number_before, begin, global_ok, object_ok, end_ok) ==
    LET e == RendererFrontend_end_frame(frame_number_before, end_ok) IN
    CASE begin = "err" ->
            [ res |-> "err", calls |-> << "begin_frame" >>,
              frame_number |-> frame_number_before ]
      [] begin = "false" ->
            [ res |-> "ok", calls |-> << "begin_frame" >>,
              frame_number |-> frame_number_before ]
      [] begin = "true" /\ ~global_ok ->
            [ res |-> "err", calls |-> << "begin_frame", "update_global_state" >>,
              frame_number |-> frame_number_before ]
      [] begin = "true" /\ global_ok /\ ~object_ok ->
            [ res |-> "err",
              calls |-> << "begin_frame", "update_global_state", "update_object" >>,
              frame_number |-> frame_number_before ]
      [] OTHER ->
            [ res |-> e.res,
              calls |-> << "begin_frame", "update_global_state", "update_object" >>
                        \o e.calls,
              frame_number |-> e.frame_number ]

NewRendererFrontend ==
    [ op |-> "none", res |-> "ok", begin |-> "none", calls |-> << >>,
      frame_number_before |-> 0, frame_number |-> 0, frames |-> << >> ]

----------------------------------------------------------------------------
\* The event system.  A listener is the allocation its Arc points to; two
\* registered listeners are equal when they are the same allocation.

MaxListeners == 2

Listeners == 1 .. MaxListeners

\* Two of the NUMBER_OF_EVENT_CODES entries of the lookup table.
EventCodes == { "ApplicationQuit", "KeyPressed" }

\* What invoking a listener gives: the lock is poisoned, or the callback
\* returns Ok(true), Ok(false) or an error.
CallbackResults == { "true", "false", "err", "poisoned" }

\* EventSystem::default(), and for each code and listener whether the most
\* recent call that succeeded was a register.
NewEventSystem ==
    [ is_initialized |-> FALSE,
      lookup_table |-> [ c \in EventCodes |-> << >> ],
      registered |-> [ c \in EventCodes |-> {} ],
      op |-> "none", res |-> "ok", code |-> "ApplicationQuit", listener |-> 0,
      listeners |-> << >>, invoked |-> << >>, returns |-> << >> ]

\* Vec::contains with EventListenerRegistered::eq.
contains(registered_listeners, listener) ==
    \E i \in 1 .. Len(registered_listeners) : registered_listeners[i] = listener

\* EventSystem::event_register: the lookup table after the call.
event_register_without_contains(es, code, listener) ==
    IF ~es.is_initialized THEN [ res |-> "err", lookup_table |-> es.lookup_table ]
    ELSE [ res |-> "ok",
           lookup_table |-> [ es.lookup_table EXCEPT ![code] = Append(@, listener) ] ]

event_register(es, code, listener) ==
    IF ~es.is_initialized THEN [ res |-> "err", lookup_table |-> es.lookup_table ]
    ELSE [ res |-> "ok",
           lookup_table |->
              IF ~contains(es.lookup_table[code], listener)
              THEN [ es.lookup_table EXCEPT ![code] = Append(@, listener) ]
              ELSE es.lookup_table ]

\* Vec::retain of the listeners that differ from the one given.
RECURSIVE retain_others(_, _)
retain_others(registered_listeners, listener) ==
    IF registered_listeners = << >> THEN << >>
    ELSE (IF Head(registered_listeners) = listener THEN << >>
          ELSE << Head(registered_listeners) >>)
         \o retain_others(Tail(registered_listeners), listener)

\* EventSystem::event_unregister.
event_unregister(es, code, listener) ==
    IF ~es.is_initialized THEN [ res |-> "err", lookup_table |-> es.lookup_table ]
    ELSE [ res |-> "ok",
           lookup_table |->
              [ es.lookup_table EXCEPT ![code] = retain_others(@, listener) ] ]

\* EventSystem::event_fire over the listeners of the code: each is locked and
\* called in turn; the loop goes on while the callback returns Ok(true)
\* (keep_handling) and returns at the first Ok(false), error or poisoned lock.
RECURSIVE event_fire(_, _)
event_fire(registered_listeners, returns) ==
    IF registered_listeners = << >> THEN [ res |-> "ok", invoked |-> << >> ]
    ELSE LET listener == Head(registered_listeners)
             rest == event_fire(Tail(registered_listeners), returns)
         IN CASE returns[listener] = "poisoned" -> [ res |-> "err", invoked |-> << >> ]
              [] returns[listener] = "err" -> [ res |-> "err", invoked |-> << listener >> ]
              [] returns[listener] = "false" -> [ res |-> "ok", invoked |-> << listener >> ]
              [] OTHER -> [ res |-> rest.res, invoked |-> << listener >> \o rest.invoked ]

InitUnits ==
    /\ command_buffer = AllocatedCommandBuffer
    /\ buffer = NoBuffer
    /\ swapchain_extent = NoSwapchainExtent
    /\ object_shaders = NewObjectShaders
    /\ frame_resources = NoFrameResources
    /\ swapchain_image_count = NoSwapchainImageCount
    /\ physical_device_selection = NoPhysicalDeviceSelection
    /\ device_queues = NoDeviceQueues
    /\ upload = NoUpload
    /\ texture_creation = NoTextureCreation
    /\ renderer_frontend = NewRendererFrontend
    /\ event_system = NewEventSystem

----------------------------------------------------------------------------
InitContext ==
    /\ debug_assertions \in BOOLEAN
    /\ phase = "start"
    /\ pc = "top"
    /\ app_state = "Running"
    /\ app_size = InitialSize
    /\ is_resizable \in BOOLEAN
    /\ live = {}
    /\ initLog = << >>
    /\ teardownLog = << >>
    /\ sc = NullSwapchain
    /\ image_index = 0
    /\ current_frame = 0
    /\ fences = << >>
    /\ image_available_semaphores = [ s \in Slots |-> FALSE ]
    /\ cmd = << >>
    /\ cmd_calls = [ s \in Slots |-> << >> ]
    /\ submitted = 0
    /\ slotCycle = [ s \in Slots |-> 0 ]
    /\ gpuDone = {}
    /\ observedDone = {}
    /\ frame_number = 0
    /\ generations = NoGenerations
    /\ default_texture = None
    /\ last = [ op |-> "none" ]

\* VulkanContext::default(): the pending-resize flag starts false.
Init ==
    /\ InitContext
    /\ has_framebuffer_been_resized = FALSE
    /\ InitUnits

\* begin_frame's contract with the pending-resize flag as an input: no code
\* of the repository sets has_framebuffer_been_resized, so the flag is drawn
\* here to exercise the branch of begin_frame that consumes it.
InitFlag ==
    /\ InitContext
    /\ has_framebuffer_been_resized \in BOOLEAN
    /\ InitUnits

\* vulkan_init.  fail_at is the index of the step that fails, 0 when none
\* does; partial tells whether a failing swapchain step had already created
\* the handle and the image views; devices are the physical devices the
\* instance enumerates, the physical_device step failing exactly when
\* physical_device_init returns an error for them.
VulkanInit ==
    /\ phase = "start"
    /\ \E fail_at \in 0 .. Len(InitStepsOf(debug_assertions)), partial \in BOOLEAN,
          devices \in DeviceLists, enumerate_ok \in BOOLEAN :
        LET steps == InitStepsOf(debug_assertions)
            pd_at == StepIndex(steps, "physical_device")
            pd_reached == fail_at = 0 \/ fail_at >= pd_at
            pd == physical_device_init(devices, enumerate_ok)
            done == IF fail_at = 0 THEN steps ELSE SubSeq(steps, 1, fail_at - 1)
            created == SeqFilter(done, NonComponentSteps)
            failed == IF fail_at = 0 THEN "none" ELSE steps[fail_at]
            s1 == IF "swapchain" \in Range(done)
                  THEN swapchain_create_base(NullSwapchain, "ok")
                  ELSE IF failed = "swapchain" /\ partial
                       THEN swapchain_create_base(NullSwapchain, "fail_depth")
                       ELSE NullSwapchain
            s2 == IF "swapchain_framebuffers" \in Range(done)
                  THEN swapchain_framebuffers_init(s1) ELSE s1
        IN
        /\ partial => failed = "swapchain"
        /\ ~pd_reached => (devices = << >> /\ enumerate_ok)
        /\ pd_reached => (fail_at = pd_at <=> pd.res = "err")
        /\ live' = Range(created)
        /\ initLog' = created
        /\ sc' = s2
        /\ fences' = IF "sync_structures" \in Range(done)
                     THEN [ s \in Slots |-> NewFence(TRUE) ] ELSE << >>
        /\ cmd' = IF "graphics_command_buffers" \in Range(done)
                  THEN [ i \in 0 .. (NumImages - 1) |-> "initial" ] ELSE << >>
        /\ phase' = IF fail_at = 0 THEN "running" ELSE "init_failed"
        /\ last' = [ op |-> "init", ok |-> (fail_at = 0), failed_step |-> failed,
                     physical_device_reached |-> pd_reached, devices |-> devices,
                     physical_device |-> IF pd_reached THEN pd.physical_device ELSE None ]
    /\ UNCHANGED unitVars
    /\ UNCHANGED << debug_assertions, is_resizable, cmd_calls, image_available_semaphores, app_state, app_size, pc, teardownLog, image_index, current_frame,
                    has_framebuffer_been_resized, submitted, slotCycle, gpuDone,
                    observedDone, frame_number, generations, default_texture >>

\* vulkan_shutdown, called by engine_shutdown once Application::run has
\* returned Ok.  fail_at is the
\* index of the step that fails, 0 when none does.
VulkanShutdown ==
    /\ phase = "running"
    /\ pc = "exited"
    /\ \E fail_at \in 0 .. Len(ShutdownStepsOf(debug_assertions)) :
        LET steps == ShutdownStepsOf(debug_assertions)
            done == IF fail_at = 0 THEN steps ELSE SubSeq(steps, 1, fail_at - 1)
            failed == IF fail_at = 0 THEN "none" ELSE steps[fail_at]
            s1 == IF "swapchain_framebuffers" \in Range(done)
                  THEN swapchain_framebuffers_shutdown(sc) ELSE sc
            s2 == IF "swapchain" \in Range(done)
                  THEN [ swapchain_destroy_base(s1) EXCEPT !.handler = 0 ] ELSE s1
            idle == "wait_idle" \in Range(done)
        IN
        /\ teardownLog' = done
        /\ live' = live \ Range(done)
        /\ sc' = s2
        /\ fences' = IF "sync_structures" \in Range(done) THEN << >>
                     ELSE IF idle
                          THEN [ s \in DOMAIN fences |->
                                   IF fences[s].pending
                                   THEN [ fences[s] EXCEPT !.gpu = TRUE, !.pending = FALSE ]
                                   ELSE fences[s] ]
                          ELSE fences
        /\ gpuDone' = IF idle THEN 1 .. submitted ELSE gpuDone
        /\ cmd' = IF "graphics_command_buffers" \in Range(done) THEN << >> ELSE cmd
        /\ phase' = IF fail_at = 0 THEN "down" ELSE "shutdown_failed"
        /\ last' = [ op |-> "shutdown", ok |-> (fail_at = 0), failed_step |-> failed ]
    /\ UNCHANGED unitVars
    /\ UNCHANGED << debug_assertions, is_resizable, cmd_calls, image_available_semaphores, app_state, app_size, pc, initLog, image_index, current_frame,
                    has_framebuffer_been_resized, submitted, slotCycle,
                    observedDone, frame_number, generations, default_texture >>

\* Application::run, the test of the main loop: the loop body is entered
\* while the application is Running, otherwise run returns Ok.
RunLoopTest ==
    /\ phase = "running"
    /\ pc = "top"
    /\ pc' = IF app_state = "Running" THEN "idle" ELSE "exited"
    /\ last' = [ op |-> "loop_test", entered |-> (app_state = "Running") ]
    /\ UNCHANGED unitVars
    /\ UNCHANGED << debug_assertions, is_resizable, cmd_calls, image_available_semaphores, app_state, app_size, phase, live, initLog,
                    teardownLog, sc, image_index, current_frame,
                    has_framebuffer_been_resized, fences, cmd, submitted, slotCycle,
                    gpuDone, observedDone, frame_number, generations,
                    default_texture >>

\* A quit request while the loop body handles the events: the quit listener
\* sets ShuttingDown (the body goes on), a closed window makes handle_events
\* return true (the loop is left at once).
Quit ==
    /\ phase = "running"
    /\ pc = "idle"
    /\ \E window_closed \in BOOLEAN :
        /\ app_state' = IF window_closed THEN app_state ELSE "ShuttingDown"
        /\ pc' = IF window_closed THEN "exited" ELSE pc
        /\ last' = [ op |-> "quit", window_closed |-> window_closed ]
    /\ UNCHANGED unitVars
    /\ UNCHANGED << debug_assertions, is_resizable, cmd_calls, image_available_semaphores, app_size, phase, live, initLog, teardownLog, sc,
                    image_index, current_frame, has_framebuffer_been_resized, fences,
                    cmd, submitted, slotCycle, gpuDone, observedDone, frame_number,
                    generations, default_texture >>

\* A Resized event delivered while the loop body handles the events: the
\* resize listener, and RendererBackend::resize when the listener reaches it.
Resize ==
    /\ phase = "running"
    /\ pc = "idle"
    /\ \E size \in WindowSizes, r \in RecreateOutcomes :
        LET o == on_event_callback(is_resizable, app_state, app_size, size[1], size[2]) IN
        /\ ~o.renderer_resize => r = "ok"
        /\ o.renderer_resize => sc.creates < MaxCreates
        /\ app_state' = o.state
        /\ app_size' = o.size
        /\ sc' = IF o.renderer_resize THEN swapchain_recreate(sc, r) ELSE sc
        /\ image_index' = IF o.renderer_resize
                          THEN ImageIndexAfterCreate(image_index, r) ELSE image_index
        /\ phase' = IF r = "ok" THEN "running" ELSE "failed"
        /\ last' = [ op |-> IF o.renderer_resize THEN "resize" ELSE "resized_event",
                     ok |-> (r = "ok"),
                     flag_before |-> has_framebuffer_been_resized,
                     creates_before |-> sc.creates, destroys_before |-> sc.destroys ]
    /\ UNCHANGED unitVars
    /\ UNCHANGED << debug_assertions, is_resizable, cmd_calls, image_available_semaphores, pc, live, initLog, teardownLog, current_frame,
                    has_framebuffer_been_resized, fences, cmd, submitted, slotCycle,
                    gpuDone, observedDone, frame_number, generations,
                    default_texture >>

\* The outcome of a call begin_frame does not make is fixed, so that each
\* run of begin_frame is drawn once.
BeginInputsMeaningful(pending, w, acq, idx, r1, r2, fail) ==
    LET acquires == ~pending /\ w # "error"
        recreates1 == pending \/ (acquires /\ acq \in { "suboptimal", "out_of_date" })
        recreates2 == ~pending /\ recreates1 /\ r1 = "ok"
        records == acquires /\ acq = "ok"
    IN /\ pending => w = "ok"
       /\ ~acquires => acq = "ok"
       /\ ~recreates1 => r1 = "ok"
       /\ ~recreates2 => r2 = "ok"
       /\ ~records => (idx = 0 /\ fail = "none")

\* RendererBackend::begin_frame, called by draw_frame.
BeginFrame ==
    /\ phase = "running"
    /\ pc = "idle"
    /\ submitted < MaxSubmits
    /\ \E w \in WaitOutcomes, acq \in AcquireOutcomes, idx \in 0 .. (NumImages - 1),
          r1 \in RecreateOutcomes, r2 \in RecreateOutcomes, fail \in BeginFailPoints :
        LET cf == current_frame
            b == begin_frame(has_framebuffer_been_resized, sc, fences[cf], image_index,
                             cmd[cf], w, acq, idx, r1, r2, fail)
        IN
        /\ ResizePending(has_framebuffer_been_resized)
           \/ WaitCanReturn(fences[cf], BeginFrameTimeout, w)
        /\ BeginInputsMeaningful(ResizePending(has_framebuffer_been_resized),
                                 w, acq, idx, r1, r2, fail)
        /\ b.sc.creates <= MaxCreates
        /\ sc' = b.sc
        /\ image_index' = b.image_index
        /\ has_framebuffer_been_resized' = b.flag
        /\ fences' = [ fences EXCEPT ![cf] = b.fence ]
        /\ image_available_semaphores' =
               [ image_available_semaphores EXCEPT ![cf] = @ \/ b.acquired ]
        /\ cmd' = [ cmd EXCEPT ![cf] = b.cmd ]
        /\ cmd_calls' = [ cmd_calls EXCEPT ![cf] = @ \o b.calls ]
        /\ observedDone' = IF b.observedSignaled /\ slotCycle[cf] # 0
                           THEN observedDone \cup { slotCycle[cf] } ELSE observedDone
        /\ pc' = IF b.res = "proceed" THEN "frame" ELSE "top"
        /\ phase' = IF b.res = "error" THEN "failed" ELSE "running"
        /\ last' = [ op |-> "begin_frame", res |-> b.res, slot |-> cf,
                     cycle |-> submitted + 1, acq |-> acq,
                     flag_before |-> has_framebuffer_been_resized,
                     flag_after |-> b.flag,
                     waited |-> b.waited, observedSignaled |-> b.observedSignaled,
                     acquired |-> b.acquired, recorded |-> b.recorded,
                     acquire_called |-> b.acquire_called,
                     semaphore_signaled_before |-> image_available_semaphores[cf],
                     recreations |-> b.recreations,
                     recreate_ok |-> (b.sc.creates = sc.creates + b.recreations
                                      /\ b.sc.handler \in b.sc.liveDepth) ]
    /\ UNCHANGED unitVars
    /\ UNCHANGED << debug_assertions, is_resizable, app_state, app_size, live, initLog, teardownLog, current_frame,
                    submitted, slotCycle, gpuDone, frame_number, generations,
                    default_texture >>

\* RendererBackend::update_object, called by draw_frame between begin_frame
\* and end_frame; the draws follow a successful update_object_shaders.
UpdateObject ==
    /\ phase = "running"
    /\ pc = "frame"
    /\ \E object_id \in ObjectIdInputs, texture \in TextureInputs, load_ok \in BOOLEAN :
        LET cf == current_frame
            u == update_object_shaders(generations, object_id, texture,
                                       default_texture, cf, load_ok)
        IN
        /\ generations' = u.gens
        /\ phase' = IF u.res = "ok" THEN "running" ELSE "failed"
        /\ last' = [ op |-> "update_object", res |-> u.res, slot |-> cf,
                     object_id |-> object_id, texture |-> texture,
                     recorded_before |-> u.recorded_before,
                     used_generation |-> u.used_generation,
                     push_constants |-> u.push_constants,
                     ubo_writes |-> u.ubo_writes,
                     sampler_writes |-> u.sampler_writes,
                     bound |-> u.bound, draws |-> IF u.res = "ok" THEN 1 ELSE 0 ]
    /\ UNCHANGED unitVars
    /\ UNCHANGED << debug_assertions, is_resizable, cmd_calls, image_available_semaphores, app_state, app_size, pc, live, initLog, teardownLog, sc, image_index,
                    current_frame, has_framebuffer_been_resized, fences, cmd,
                    submitted, slotCycle, gpuDone, observedDone, frame_number,
                    default_texture >>

\* RendererBackend::end_frame followed by increase_frame_number, as called
\* by RendererFrontend::end_frame.
EndFrame ==
    /\ phase = "running"
    /\ pc = "frame"
    /\ \E p \in PresentOutcomes, r \in RecreateOutcomes, fail \in EndFailPoints :
        LET cf == current_frame
            e == end_frame(sc, fences[cf], image_index, p, r, fail)
        IN
        /\ fail # "none" => p = "ok"
        /\ ~PresentNeedsRecreate(p) => r = "ok"
        /\ e.sc.creates <= MaxCreates
        /\ sc' = e.sc
        /\ image_index' = e.image_index
        /\ fences' = [ fences EXCEPT ![cf] = e.fence ]
        /\ image_available_semaphores' =
               [ image_available_semaphores EXCEPT ![cf] = @ /\ ~e.submit ]
        /\ cmd' = [ cmd EXCEPT ![cf] = e.cmd ]
        /\ cmd_calls' = [ cmd_calls EXCEPT ![cf] = IF e.submit THEN << >> ELSE @ \o e.calls ]
        /\ submitted' = IF e.submit THEN submitted + 1 ELSE submitted
        /\ slotCycle' = IF e.submit THEN [ slotCycle EXCEPT ![cf] = submitted + 1 ]
                        ELSE slotCycle
        /\ frame_number' = IF e.res = "ok" THEN frame_number + 1 ELSE frame_number
        /\ pc' = "top"
        /\ phase' = IF e.res = "ok" THEN "running" ELSE "failed"
        /\ last' = [ op |-> "end_frame", res |-> e.res, slot |-> cf,
                     submit |-> e.submit, presented |-> e.presented, present |-> p,
                     calls_since_submit |-> cmd_calls[cf] \o e.calls,
                     recreations |-> e.recreations,
                     recreate_ok |-> (e.sc.creates = sc.creates + e.recreations
                                      /\ e.sc.handler \in e.sc.liveDepth) ]
    /\ UNCHANGED unitVars
    /\ UNCHANGED << debug_assertions, is_resizable, app_state, app_size, live, initLog, teardownLog, current_frame,
                    has_framebuffer_been_resized, gpuDone, observedDone,
                    generations, default_texture >>

\* The GPU finishes the work submitted with a slot's fence and signals it.
GpuComplete ==
    /\ \E s \in DOMAIN fences :
        /\ fences[s].pending
        /\ fences' = [ fences EXCEPT ![s] = [ @ EXCEPT !.gpu = TRUE, !.pending = FALSE ] ]
        /\ gpuDone' = gpuDone \cup { slotCycle[s] }
        /\ cmd' = [ cmd EXCEPT ![s] = "executable" ]
        /\ last' = [ op |-> "gpu_complete", slot |-> s ]
    /\ UNCHANGED unitVars
    /\ UNCHANGED << debug_assertions, is_resizable, cmd_calls, image_available_semaphores, app_state, app_size, phase, pc, live, initLog, teardownLog, sc,
                    image_index, current_frame, has_framebuffer_been_resized,
                    submitted, slotCycle, observedDone, frame_number, generations,
                    default_texture >>

\* RendererFrontend::swap_default_texture: load_texture creates the new
\* texture with is_default set when the current default carries a generation.
SwapDefaultTexture ==
    /\ phase = "running"
    /\ pc = "idle"
    /\ default_texture' = load_texture(default_texture)
    /\ last' = [ op |-> "swap_default_texture",
                 loaded_generation |-> load_texture(default_texture) ]
    /\ UNCHANGED unitVars
    /\ UNCHANGED << debug_assertions, is_resizable, cmd_calls, image_available_semaphores, app_state, app_size, phase, pc, live, initLog, teardownLog, sc,
                    image_index, current_frame, has_framebuffer_been_resized, fences,
                    cmd, submitted, slotCycle, gpuDone, observedDone, frame_number,
                    generations >>

Next ==
    \/ VulkanInit
    \/ VulkanShutdown
    \/ RunLoopTest
    \/ Quit
    \/ Resize
    \/ BeginFrame
    \/ UpdateObject
    \/ EndFrame
    \/ GpuComplete
    \/ SwapDefaultTexture

Spec == Init /\ [][Next]_vars

SpecFlag == InitFlag /\ [][Next]_vars

----------------------------------------------------------------------------
\* The components exercised on their own, the engine not started.

EngineNotStarted ==
    /\ InitContext
    /\ debug_assertions = FALSE
    /\ is_resizable = TRUE
    /\ has_framebuffer_been_resized = FALSE

\* CommandBuffer::reset.
CommandReset ==
    /\ command_buffer.calls < MaxCommandCalls
    /\ \E gpu_ok \in BOOLEAN :
        command_buffer' = CommandBuffer_call(command_buffer, "reset", gpu_ok)
    /\ UNCHANGED << engineVars, systemUnitVars, buffer, swapchain_extent, object_shaders, frame_resources >>

\* CommandBuffer::begin.
CommandBegin ==
    /\ command_buffer.calls < MaxCommandCalls
    /\ \E gpu_ok \in BOOLEAN :
        command_buffer' = CommandBuffer_call(command_buffer, "begin", gpu_ok)
    /\ UNCHANGED << engineVars, systemUnitVars, buffer, swapchain_extent, object_shaders, frame_resources >>

\* renderpass_begin.
RenderpassBegin ==
    /\ command_buffer.calls < MaxCommandCalls
    /\ \E render_area \in RenderAreas, framebuffer \in FramebufferSizes :
        command_buffer' = renderpass_begin(command_buffer, render_area,
                                           framebuffer[1], framebuffer[2])
    /\ UNCHANGED << engineVars, systemUnitVars, buffer, swapchain_extent, object_shaders, frame_resources >>

\* renderpass_end.
RenderpassEnd ==
    /\ command_buffer.calls < MaxCommandCalls
    /\ command_buffer' = CommandBuffer_call(command_buffer, "renderpass_end", TRUE)
    /\ UNCHANGED << engineVars, systemUnitVars, buffer, swapchain_extent, object_shaders, frame_resources >>

\* CommandBuffer::end.
CommandEnd ==
    /\ command_buffer.calls < MaxCommandCalls
    /\ \E gpu_ok \in BOOLEAN :
        command_buffer' = CommandBuffer_call(command_buffer, "end", gpu_ok)
    /\ UNCHANGED << engineVars, systemUnitVars, buffer, swapchain_extent, object_shaders, frame_resources >>

NextCommand ==
    \/ CommandReset
    \/ CommandBegin
    \/ RenderpassBegin
    \/ RenderpassEnd
    \/ CommandEnd

InitCommand == EngineNotStarted /\ InitUnits

----------------------------------------------------------------------------
\* create_buffer.
BufferCreate ==
    /\ buffer.ops < MaxBufferOps
    /\ buffer.buf = None
    /\ \E size \in BufferSizes, fill \in Bytes :
        \E memory_size \in MemoryRequirementSizes(size) :
            buffer' = [ NoBuffer EXCEPT !.buf = Some(create_buffer(size, memory_size, fill)),
                                        !.ops = buffer.ops + 1, !.op = "create_buffer" ]
    /\ UNCHANGED << engineVars, systemUnitVars, command_buffer, swapchain_extent, object_shaders, frame_resources >>

\* load_data_into_buffer.
BufferLoad ==
    /\ buffer.ops < MaxBufferOps
    /\ buffer.buf # None
    /\ LET b == CHOOSE x \in buffer.buf : TRUE IN
       \E bytes \in [ 1 .. b.total_size -> Bytes ] :
           buffer' = [ NoBuffer EXCEPT !.buf = Some(load_data_into_buffer(b, bytes)),
                                       !.ops = buffer.ops + 1,
                                       !.op = "load_data_into_buffer" ]
    /\ UNCHANGED << engineVars, systemUnitVars, command_buffer, swapchain_extent, object_shaders, frame_resources >>

\* resize_buffer; the buffer is consumed whatever the result.
BufferResize ==
    /\ buffer.ops < MaxBufferOps
    /\ buffer.buf # None
    /\ LET b == CHOOSE x \in buffer.buf : TRUE IN
       \E new_size \in BufferSizes, fill \in Bytes, clipped \in BOOLEAN,
          fail \in ResizeFailPoints :
           LET r == resize_buffer(b, new_size, fill, clipped, fail) IN
           /\ fail # "none" => (fill = 0 /\ ~clipped)
           /\ new_size >= b.total_size => ~clipped
           /\ buffer' = [ buf |-> r.buffer, ops |-> buffer.ops + 1,
                          op |-> "resize_buffer", res |-> r.res,
                          before |-> Some(b), new_size |-> new_size ]
    /\ UNCHANGED << engineVars, systemUnitVars, command_buffer, swapchain_extent, object_shaders, frame_resources >>

NextBuffer ==
    \/ BufferCreate
    \/ BufferLoad
    \/ BufferResize

SpecBuffer == InitCommand /\ [][NextBuffer]_vars

----------------------------------------------------------------------------
\* swapchain_create: the first swapchain.
SwapchainCreate ==
    /\ swapchain_extent.creates = 0
    /\ \E requested \in Extents, capabilities \in SurfaceCapabilities :
        swapchain_extent' = ExtentOfCreateBase(swapchain_extent, requested.width,
                                               requested.height, capabilities)
    /\ UNCHANGED << engineVars, systemUnitVars, command_buffer, buffer, object_shaders, frame_resources >>

\* swapchain_recreate: the swapchain created in place of the previous one.
SwapchainRecreate ==
    /\ swapchain_extent.creates > 0
    /\ swapchain_extent.creates < MaxCreates
    /\ \E requested \in Extents, capabilities \in SurfaceCapabilities :
        swapchain_extent' = ExtentOfCreateBase(swapchain_extent, requested.width,
                                               requested.height, capabilities)
    /\ UNCHANGED << engineVars, systemUnitVars, command_buffer, buffer, object_shaders, frame_resources >>

NextExtent ==
    \/ SwapchainCreate
    \/ SwapchainRecreate

SpecExtent == InitCommand /\ [][NextExtent]_vars

SpecCommand == InitCommand /\ [][NextCommand]_vars

----------------------------------------------------------------------------
\* The image count of the swapchains created one after the other.

\* swapchain_create: the image count of the first swapchain.
SwapchainCreateImageCount ==
    /\ swapchain_image_count.creates = 0
    /\ \E capabilities \in ImageCountCapabilities :
        swapchain_image_count' = ImageCountOfCreateBase(swapchain_image_count, capabilities)
    /\ UNCHANGED << engineVars, renderUnitVars, physical_device_selection, device_queues, upload, texture_creation, renderer_frontend, event_system >>

\* swapchain_recreate: the image count of the swapchain created in place of
\* the previous one.
SwapchainRecreateImageCount ==
    /\ swapchain_image_count.creates > 0
    /\ swapchain_image_count.creates < MaxCreates
    /\ \E capabilities \in ImageCountCapabilities :
        swapchain_image_count' = ImageCountOfCreateBase(swapchain_image_count, capabilities)
    /\ UNCHANGED << engineVars, renderUnitVars, physical_device_selection, device_queues, upload, texture_creation, renderer_frontend, event_system >>

NextImageCount ==
    \/ SwapchainCreateImageCount
    \/ SwapchainRecreateImageCount

SpecImageCount == InitCommand /\ [][NextImageCount]_vars

----------------------------------------------------------------------------
\* The object shaders exercised on their own.

\* graphics_command_buffers_init then sync_structures_init, as vulkan_init
\* calls them.
FrameResourcesInit ==
    /\ ~frame_resources.initialised
    /\ frame_resources' =
           sync_structures_init(graphics_command_buffers_init(frame_resources, NumImages))
    /\ UNCHANGED << engineVars, systemUnitVars, command_buffer, buffer, swapchain_extent, object_shaders >>

\* object_shader_acquire_resources.
ObjectAcquire ==
    /\ object_shaders.ops < MaxObjectOps
    /\ \E alloc_ok \in BOOLEAN :
        LET a == object_shader_acquire_resources(object_shaders, alloc_ok) IN
        object_shaders' =
            [ a.os EXCEPT !.ops = @ + 1,
                          !.last = [ op |-> "acquire_resources", res |-> a.res,
                                     object_id |-> a.object_id ] ]
    /\ UNCHANGED << engineVars, systemUnitVars, command_buffer, buffer, swapchain_extent, frame_resources >>

\* object_shader_release_resources.
ObjectRelease ==
    /\ object_shaders.ops < MaxObjectOps
    /\ \E object_id \in ObjectShaderIds, free_ok \in BOOLEAN :
        LET r == object_shader_release_resources(object_shaders, object_id, free_ok) IN
        object_shaders' =
            [ r.os EXCEPT !.ops = @ + 1,
                          !.last = [ op |-> "release_resources", res |-> r.res,
                                     object_id |-> Some(object_id) ] ]
    /\ UNCHANGED << engineVars, systemUnitVars, command_buffer, buffer, swapchain_extent, frame_resources >>

\* swap_default_texture: a texture loaded from a file replaces the texture
\* the frontend hands to update_object.
ObjectLoadTexture ==
    /\ object_shaders.ops < MaxObjectOps
    /\ object_shaders' =
           [ object_shaders EXCEPT
               !.texture = [ id |-> @.id + 1, generation |-> load_texture(@.generation) ],
               !.ops = @ + 1,
               !.last = [ op |-> "load_texture" ] ]
    /\ UNCHANGED << engineVars, systemUnitVars, command_buffer, buffer, swapchain_extent, frame_resources >>

\* update_object on the slot of the current frame, with the texture the
\* frontend holds, as draw_frame calls it.
ObjectUpdate ==
    /\ object_shaders.ops < MaxObjectOps
    /\ \E object_id \in { None } \cup { Some(i) : i \in ObjectShaderIds }, load_ok \in BOOLEAN :
        LET cf == current_frame
            os == object_shaders
            u == update_object_shaders(os.generations, object_id,
                                       [ present |-> TRUE, generation |-> os.texture.generation ],
                                       os.texture.generation, cf, load_ok)
            id == CHOOSE i \in object_id : TRUE
            wrote == u.res = "ok" /\ u.sampler_writes = 1
        IN
        object_shaders' =
            [ os EXCEPT
                !.generations = u.gens,
                !.sampler_texture = IF wrote THEN [ @ EXCEPT ![id][cf] = os.texture.id ]
                                    ELSE @,
                !.ops = @ + 1,
                !.last = [ op |-> "update_object", res |-> u.res, slot |-> cf,
                           object_id |-> object_id,
                           sampler_writes |-> u.sampler_writes,
                           bound |-> u.bound,
                           bound_set |-> IF u.bound THEN os.descriptor_sets[id][cf]
                                         ELSE NullDescriptorSet ] ]
    /\ UNCHANGED << engineVars, systemUnitVars, command_buffer, buffer, swapchain_extent, frame_resources >>

NextObjects ==
    \/ FrameResourcesInit
    \/ ObjectAcquire
    \/ ObjectRelease
    \/ ObjectLoadTexture
    \/ ObjectUpdate

SpecObjects == InitCommand /\ [][NextObjects]_vars


----------------------------------------------------------------------------
\* The choice of the physical device among devices that may lack any one of
\* the queue families.

\* physical_device_init over the devices enumerated.
PhysicalDeviceInit ==
    /\ physical_device_selection.op = "none"
    /\ \E devices \in PhysicalDeviceLists, enumerate_ok \in BOOLEAN :
        LET pd == physical_device_init(devices, enumerate_ok) IN
        physical_device_selection' =
            [ op |-> "physical_device_init", devices |-> devices, res |-> pd.res,
              physical_device |-> pd.physical_device ]
    /\ UNCHANGED << engineVars, renderUnitVars, swapchain_image_count, device_queues, upload, texture_creation, renderer_frontend, event_system >>

NextPhysicalDevice == PhysicalDeviceInit

SpecPhysicalDevice == InitCommand /\ [][NextPhysicalDevice]_vars

----------------------------------------------------------------------------
\* The queue create infos of the logical device.

\* device_init up to the queue create infos it hands to create_device.
DeviceQueueCreateInfos ==
    /\ device_queues.op = "none"
    /\ \E g \in QueueFamilyIndices, p \in QueueFamilyIndices, t \in QueueFamilyIndices :
        LET r == get_device_queue_create_infos(g, p, t) IN
        device_queues' =
            [ op |-> "device_init", graphics_family_index |-> g,
              present_family_index |-> p, transfer_family_index |-> t,
              res |-> r.res, queue_create_infos |-> r.queue_create_infos ]
    /\ UNCHANGED << engineVars, renderUnitVars, swapchain_image_count,
                    physical_device_selection, upload, texture_creation, renderer_frontend, event_system >>

NextDeviceQueues == DeviceQueueCreateInfos

SpecDeviceQueues == InitCommand /\ [][NextDeviceQueues]_vars


----------------------------------------------------------------------------
\* Uploads.

\* create_buffer of a destination buffer, device local (vertex and index
\* buffers) or host visible (uniform buffers).
UploadCreateBuffer ==
    /\ upload.dst = None
    /\ \E size \in BufferSizes, memory_flags \in MemoryFlags, fill \in Bytes :
        upload' = [ NoUpload EXCEPT
                      !.dst = Some([ memory_flags |-> memory_flags, total_size |-> size,
                                     data |-> [ i \in 1 .. size |-> fill ] ]),
                      !.ops = upload.ops + 1, !.op = "create_buffer" ]
    /\ UNCHANGED << engineVars, renderUnitVars, swapchain_image_count,
                    physical_device_selection, device_queues, texture_creation, renderer_frontend, event_system >>

\* load_data_into_buffer on a host-visible destination.
UploadLoadData ==
    /\ upload.ops < MaxBufferOps
    /\ upload.dst # None
    /\ LET dst == unwrap(upload.dst) IN
       /\ dst.memory_flags = "HOST_VISIBLE"
       /\ \E offset \in 0 .. (dst.total_size - 1), map_ok \in BOOLEAN :
          \E size \in 1 .. (dst.total_size - offset) :
          \E data \in [ 1 .. size -> Bytes ] :
            upload' = [ NoUpload EXCEPT
                          !.dst = IF map_ok
                                  THEN Some(load_data_into_buffer_range(dst, offset, size, data))
                                  ELSE Some(dst),
                          !.ops = upload.ops + 1, !.op = "load_data_into_buffer",
                          !.res = IF map_ok THEN "ok" ELSE "err",
                          !.before = Some(dst), !.offset = offset, !.size = size,
                          !.data = data ]
    /\ UNCHANGED << engineVars, renderUnitVars, swapchain_image_count,
                    physical_device_selection, device_queues, texture_creation, renderer_frontend, event_system >>

\* upload_data_range, for a range within the destination buffer.
UploadDataRange ==
    /\ upload.ops < MaxBufferOps
    /\ upload.dst # None
    /\ LET dst == unwrap(upload.dst) IN
       \E offset \in 0 .. (dst.total_size - 1), fill \in Bytes, fail \in UploadFailPoints :
       \E size \in 1 .. (dst.total_size - offset) :
       \E data \in [ 1 .. size -> Bytes ], memory_size \in MemoryRequirementSizes(size) :
         LET r == upload_data_range(dst, offset, size, data, memory_size, fill, fail) IN
         /\ fail # "none" => (fill = 0 /\ memory_size = size)
         /\ upload' = [ dst |-> Some(r.dst), ops |-> upload.ops + 1,
                        op |-> "upload_data_range", res |-> r.res, before |-> Some(dst),
                        offset |-> offset, size |-> size, data |-> data,
                        staging_created |-> r.staging_created,
                        staging_destroyed |-> r.staging_destroyed,
                        copy_commands |-> r.copy_commands,
                        staging_size |-> r.staging_size,
                        staging_mapped |-> r.staging_mapped ]
    /\ UNCHANGED << engineVars, renderUnitVars, swapchain_image_count,
                    physical_device_selection, device_queues, texture_creation, renderer_frontend, event_system >>

NextUpload ==
    \/ UploadCreateBuffer
    \/ UploadLoadData
    \/ UploadDataRange

SpecUpload == InitCommand /\ [][NextUpload]_vars


----------------------------------------------------------------------------
\* Textures created one after the other.

VulkanCreateTexture ==
    /\ texture_creation.creates < MaxCreates
    /\ \E is_default \in BOOLEAN, image_size \in BufferSizes, fail \in TextureFailPoints :
        texture_creation' =
            vulkan_create_texture_steps(texture_creation, is_default, image_size, fail)
    /\ UNCHANGED << engineVars, renderUnitVars, swapchain_image_count,
                    physical_device_selection, device_queues, upload, renderer_frontend, event_system >>

NextTexture == VulkanCreateTexture

SpecTexture == InitCommand /\ [][NextTexture]_vars


----------------------------------------------------------------------------
\* The frames drawn by the application loop; an error of draw_frame ends the
\* loop.

DrawFrame ==
    /\ renderer_frontend.res = "ok"
    /\ Len(renderer_frontend.frames) < MaxDrawFrames
    /\ \E begin \in BeginFrameResults, global_ok \in BOOLEAN, object_ok \in BOOLEAN,
          end_ok \in BOOLEAN :
        LET d == draw_frame(renderer_frontend.frame_number, begin, global_ok,
                            object_ok, end_ok)
        IN
        /\ begin # "true" => (global_ok /\ object_ok /\ end_ok)
        /\ ~global_ok => (object_ok /\ end_ok)
        /\ ~object_ok => end_ok
        /\ renderer_frontend' =
              [ op |-> "draw_frame", res |-> d.res, begin |-> begin, calls |-> d.calls,
                frame_number_before |-> renderer_frontend.frame_number,
                frame_number |-> d.frame_number,
                frames |-> Append(renderer_frontend.frames,
                                  [ begin |-> begin, res |-> d.res,
                                    ended |-> d.res = "ok" /\ begin = "true" ]) ]
    /\ UNCHANGED << engineVars, renderUnitVars, swapchain_image_count,
                    physical_device_selection, device_queues, upload, texture_creation, event_system >>

NextDrawFrame == DrawFrame

SpecDrawFrame == InitCommand /\ [][NextDrawFrame]_vars


----------------------------------------------------------------------------
\* The calls on the event system.

\* events_init.
EventsInit ==
    /\ ~event_system.is_initialized
    /\ event_system' = [ NewEventSystem EXCEPT !.is_initialized = TRUE, !.op = "events_init" ]
    /\ UNCHANGED << engineVars, renderUnitVars, swapchain_image_count,
                    physical_device_selection, device_queues, upload, texture_creation,
                    renderer_frontend >>

\* event_register of a listener for a code.
EventRegister ==
    /\ \E code \in EventCodes, listener \in Listeners :
        LET r == event_register(event_system, code, listener) IN
        event_system' =
            [ event_system EXCEPT
                !.lookup_table = r.lookup_table,
                !.registered = IF r.res = "ok"
                               THEN [ @ EXCEPT ![code] = @ \cup { listener } ] ELSE @,
                !.op = "event_register", !.res = r.res, !.code = code,
                !.listener = listener, !.listeners = << >>, !.invoked = << >>,
                !.returns = << >> ]
    /\ UNCHANGED << engineVars, renderUnitVars, swapchain_image_count,
                    physical_device_selection, device_queues, upload, texture_creation,
                    renderer_frontend >>

\* event_unregister of a listener for a code.
EventUnregister ==
    /\ \E code \in EventCodes, listener \in Listeners :
        LET r == event_unregister(event_system, code, listener) IN
        event_system' =
            [ event_system EXCEPT
                !.lookup_table = r.lookup_table,
                !.registered = IF r.res = "ok"
                               THEN [ @ EXCEPT ![code] = @ \ { listener } ] ELSE @,
                !.op = "event_unregister", !.res = r.res, !.code = code,
                !.listener = listener, !.listeners = << >>, !.invoked = << >>,
                !.returns = << >> ]
    /\ UNCHANGED << engineVars, renderUnitVars, swapchain_image_count,
                    physical_device_selection, device_queues, upload, texture_creation,
                    renderer_frontend >>

\* event_fire of a code, each listener's callback returning what it will.
EventFire ==
    /\ \E code \in EventCodes, returns \in [ Listeners -> CallbackResults ] :
        LET f == event_fire(event_system.lookup_table[code], returns) IN
        /\ \A l \in Listeners :
              ~contains(f.invoked, l) => returns[l] \in { "true", "poisoned" }
        /\ event_system' =
              [ event_system EXCEPT
                  !.op = "event_fire", !.res = f.res, !.code = code, !.listener = 0,
                  !.listeners = event_system.lookup_table[code],
                  !.invoked = f.invoked, !.returns = returns ]
    /\ UNCHANGED << engineVars, renderUnitVars, swapchain_image_count,
                    physical_device_selection, device_queues, upload, texture_creation,
                    renderer_frontend >>

NextEvents ==
    \/ EventsInit
    \/ EventRegister
    \/ EventUnregister
    \/ EventFire

SpecEvents == InitCommand /\ [][NextEvents]_vars

----------------------------------------------------------------------------
\* Properties.

BeginProceeded == last.op = "begin_frame" /\ last.res = "proceed"

\* C1: begin_frame returns "proceed" only if, during that call, it waited on
\* the slot's in-flight fence and the fence was signaled when the wait
\* returned.
C1_ProceedOnlyAfterFenceSignaled ==
    BeginProceeded => (last.waited /\ last.observedSignaled)

\* A begin_frame that proceeded after the GPU signaled the fence of an
\* earlier submit of the same slot.
C1_Witness ==
    BeginProceeded /\ last.observedSignaled /\ slotCycle[last.slot] # 0

\* The cycles submitted to the GPU whose completion no fence wait has shown.
OutstandingCycles == { c \in 1 .. submitted : c \notin observedDone }

\* C2: at any moment at most max_frames_in_flight submitted frames are
\* outstanding (submitted, their fence not yet observed signaled).
C2_AtMostNOutstanding == Cardinality(OutstandingCycles) <= max_frames_in_flight

\* Several frames were submitted and one of them is still outstanding.
C2_Witness == submitted >= 2 /\ Cardinality(OutstandingCycles) = 1

\* C3: when begin_frame proceeds to recording for cycle c, every cycle up to
\* c - max_frames_in_flight has completed on the GPU and that completion was
\* observed through a fence.
C3_BlocksUntilOlderCycleComplete ==
    BeginProceeded =>
        \A k \in 1 .. (last.cycle - max_frames_in_flight) :
            k \in gpuDone /\ k \in observedDone

\* The third cycle proceeds, the first one being observed complete.
C3_Witness == BeginProceeded /\ last.cycle = 3 /\ 1 \in observedDone

\* C4 (as claimed): while the backend runs, after any number of successful
\* swapchain recreations exactly one swapchain is live, destroys = creates - 1,
\* and no image view, depth image or framebuffer of an earlier chain is live.
C4_OneLiveSwapchain ==
    phase = "running" =>
        /\ sc.liveChains = { sc.handler }
        /\ sc.destroys = sc.creates - 1
        /\ sc.liveViews = { sc.handler }
        /\ sc.liveDepth = { sc.handler }
        /\ sc.liveFbs \subseteq { sc.handler }

UpdateSucceeded == last.op = "update_object" /\ last.res = "ok"

\* C5 (as claimed): an update_object on a frame slot whose recorded
\* generation equals the generation of the bound texture issues no sampler
\* descriptor write.
C5_NoWriteWhenGenerationUnchanged ==
    (UpdateSucceeded /\ last.texture.present
        /\ last.recorded_before = last.texture.generation)
    => last.sampler_writes = 0

\* C5 (amended): for a bound texture that carries a generation, an
\* update_object on a frame slot whose recorded generation equals it issues
\* no sampler descriptor write; a bound texture without a generation (the
\* default texture) gets its sampler descriptor written on every update_object.
C5_NoWriteWhenSomeGenerationUnchanged ==
    /\ (UpdateSucceeded /\ last.texture.present
          /\ IsSome(last.texture.generation)
          /\ last.recorded_before = last.texture.generation)
       => last.sampler_writes = 0
    /\ (UpdateSucceeded /\ last.texture.present /\ last.texture.generation = None)
       => last.sampler_writes = 1

\* A repeated update_object with an unchanged generation wrote nothing.
C5_Witness ==
    /\ UpdateSucceeded /\ last.texture.present
    /\ last.texture.generation = Some(0)
    /\ last.recorded_before = Some(0)
    /\ last.sampler_writes = 0

\* C6 (as claimed): after a failed vulkan_init no GPU object created by the
\* earlier steps is live.
C6_FailedInitLeavesNothingLive ==
    phase = "init_failed" =>
        /\ live \cap GpuObjects = {}
        /\ sc.liveChains = {} /\ sc.liveViews = {}

\* C7 (as claimed): when a teardown step fails, every other teardown step
\* is still executed.
C7_ShutdownRunsRemainingSteps ==
    phase = "shutdown_failed" =>
        Range(ShutdownStepsOf(debug_assertions)) \ { last.failed_step }
            \subseteq Range(teardownLog)

\* C8: vulkan_shutdown first waits for the device to be idle, then tears the
\* components down in the reverse of the order vulkan_init created them: the
\* steps it ran are a prefix of that order, all of it when shutdown succeeds.
C8_TeardownReversesInit ==
    (phase \in { "down", "shutdown_failed" } /\ teardownLog # << >>) =>
        LET torn == Tail(teardownLog)
            expected == Reverse(initLog)
        IN /\ Head(teardownLog) = "wait_idle"
           /\ Len(torn) <= Len(expected)
           /\ \A i \in 1 .. Len(torn) : torn[i] = expected[i]
           /\ phase = "down" => (Len(torn) = Len(expected) /\ live = {})

\* A complete shutdown of a backend that had created every component.
C8_Witness ==
    phase = "down" /\ Len(teardownLog) >= 17 /\ "objects_buffers" \in Range(initLog)

\* C9 (as claimed): resize leaves the swapchain as it is and records the
\* pending-resize flag.
C9_ResizeOnlySetsFlag ==
    last.op = "resize" =>
        /\ sc.creates = last.creates_before
        /\ sc.destroys = last.destroys_before
        /\ has_framebuffer_been_resized

\* C10: a begin_frame called with the pending-resize flag set recreates the
\* swapchain once, waits on no fence, acquires no image and records nothing;
\* it clears the flag and returns "skip", or returns an error (flag left set)
\* exactly when a GPU call of the recreation failed.
C10_PendingResizeSkipsFrame ==
    (last.op = "begin_frame" /\ last.flag_before) =>
        /\ ~last.waited /\ ~last.acquired /\ ~last.recorded
        /\ last.recreations = 1
        /\ pc = "top"
        /\ last.recreate_ok => (last.res = "skip" /\ ~has_framebuffer_been_resized)
        /\ ~last.recreate_ok => (last.res = "error" /\ has_framebuffer_been_resized)

\* A begin_frame that consumed the flag and skipped the frame.
C10_Witness ==
    /\ last.op = "begin_frame" /\ last.flag_before /\ last.res = "skip"
    /\ sc.creates = 2 /\ ~has_framebuffer_been_resized

\* C11: when the acquire of begin_frame reports suboptimal or out-of-date,
\* begin_frame recreates the swapchain, records nothing and leaves the frame
\* (nothing is submitted for it); it returns "skip", and an error only when a
\* GPU call of a recreation failed.
C11_AcquireOutOfDateSkipsFrame ==
    (last.op = "begin_frame" /\ last.acq \in { "suboptimal", "out_of_date" }) =>
        /\ last.recreations >= 1
        /\ ~last.recorded
        /\ pc = "top"
        /\ last.recreate_ok => last.res = "skip"
        /\ ~last.recreate_ok => last.res = "error"

\* A begin_frame whose acquire was out of date and that skipped the frame.
C11_Witness ==
    /\ last.op = "begin_frame" /\ last.acq = "out_of_date"
    /\ last.res = "skip" /\ last.waited /\ sc.creates > 1

\* C12: when the present of end_frame reports suboptimal or out-of-date, the
\* swapchain is recreated and end_frame returns success; it returns an error
\* only when a GPU call of the recreation failed.
C12_PresentOutOfDateIsSuccess ==
    (last.op = "end_frame" /\ last.present \in { "suboptimal", "out_of_date" }) =>
        /\ last.submit
        /\ last.recreations = 1
        /\ last.recreate_ok => last.res = "ok"
        /\ ~last.recreate_ok => last.res = "error"

\* An end_frame whose present was suboptimal and that returned success.
C12_Witness ==
    /\ last.op = "end_frame" /\ last.present = "suboptimal"
    /\ last.res = "ok" /\ sc.creates > 1 /\ phase = "running"

\* C13 (as claimed): after an end_frame whose queue submit succeeded, the
\* frame-slot index is the slot of that frame plus one, modulo
\* max_frames_in_flight.
C13_SlotAdvancesAfterSubmit ==
    (last.op = "end_frame" /\ last.submit) =>
        current_frame = (last.slot + 1) % max_frames_in_flight

\* C14 (as claimed): a resize with a zero dimension suspends the submission
\* of frames without ending the application: while the application is
\* Suspended the main loop is not left and no frame is submitted.
C14_ZeroResizeSuspendsWithoutTerminating ==
    app_state = "Suspended" =>
        /\ ~(last.op = "loop_test" /\ pc = "exited")
        /\ ~(last.op = "end_frame" /\ last.submit)
        /\ phase \notin { "down", "shutdown_failed" }

\* C15 (as claimed): a command-buffer call made out of the legal sequence
\* returns a failure and issues no GPU call.
C15_IllegalCallRejectedWithoutGpuCall ==
    (command_buffer.call # "none" /\ ~command_buffer.legal) =>
        (command_buffer.res = "err" /\ command_buffer.gpu_calls = 0)

\* C16: a renderpass_begin whose render area is wider or higher than the
\* framebuffer returns an error and issues no GPU call, and leaves the
\* command buffer as it was.
C16_RenderAreaBeyondFramebufferRejected ==
    (command_buffer.call = "renderpass_begin" /\ IsSome(command_buffer.render_area)) =>
        LET area == CHOOSE a \in command_buffer.render_area : TRUE
            fb == CHOOSE f \in command_buffer.framebuffer : TRUE
            exceeds == area.width > fb[1] \/ area.height > fb[2]
        IN /\ exceeds => (command_buffer.res = "err" /\ command_buffer.gpu_calls = 0)
           /\ ~exceeds => (command_buffer.res = "ok" /\ command_buffer.gpu_calls = 1)

\* A render pass begun on a recording buffer with a render area higher than
\* the framebuffer was rejected.
C16_Witness ==
    /\ command_buffer.call = "renderpass_begin" /\ command_buffer.legal
    /\ command_buffer.render_area = Some([ x |-> 0, y |-> 0, width |-> 800, height |-> 720 ])
    /\ command_buffer.framebuffer = Some(<< 800, 600 >>)
    /\ command_buffer.res = "err" /\ command_buffer.gpu_calls = 0
    /\ command_buffer.state = "recording"

\* C17 (as claimed): an update_object whose object id is None or out of
\* range returns an error and records no GPU command: no push constants, no
\* descriptor write, no descriptor bind, no draw.
C17_InvalidObjectIdIssuesNoGpuCall ==
    (last.op = "update_object"
        /\ (last.object_id = None \/ last.object_id \cap Objects = {})) =>
        /\ last.res = "error"
        /\ ~last.push_constants
        /\ last.ubo_writes = 0 /\ last.sampler_writes = 0
        /\ ~last.bound /\ last.draws = 0

\* C18: when vulkan_init reaches the choice of the physical device and no
\* enumerated device supports the swapchain extension (more generally, none
\* has the queue families, the swapchain support, the extension and the
\* feature required), init fails and no logical device is created.
C18_NoSuitableDeviceNoLogicalDevice ==
    (last.op = "init" /\ last.physical_device_reached) =>
        LET ds == last.devices
            none_with_extension == \A i \in 1 .. Len(ds) : ~ds[i].swapchain_extension
            none_suitable ==
                \A i \in 1 .. Len(ds) :
                    ~(ds[i].graphics_family /\ ds[i].present_family
                        /\ ds[i].swapchain_complete /\ ds[i].swapchain_extension
                        /\ ds[i].sampler_anisotropy)
        IN (none_with_extension \/ none_suitable) =>
               /\ ~last.ok
               /\ phase = "init_failed"
               /\ last.failed_step = "physical_device"
               /\ "device" \notin live /\ "device" \notin Range(initLog)

\* An init that found two devices, none with the swapchain extension, and
\* failed with the instance and the surface created but no logical device.
C18_Witness ==
    /\ last.op = "init" /\ last.physical_device_reached
    /\ Len(last.devices) = 2
    /\ \A i \in 1 .. 2 : ~last.devices[i].swapchain_extension
    /\ last.devices[1].graphics_family /\ last.devices[1].swapchain_complete
    /\ phase = "init_failed" /\ "surface" \in live /\ "device" \notin live

\* C19 (as claimed): after a resize_buffer that succeeded, for whatever new
\* size, the returned buffer holds over the byte range of the original
\* buffer the bytes the original held.
C19_ResizePreservesContent ==
    (buffer.op = "resize_buffer" /\ buffer.res = "ok") =>
        LET old == CHOOSE x \in buffer.before : TRUE
            new == CHOOSE x \in buffer.buf : TRUE
        IN /\ old.total_size <= new.total_size
           /\ \A i \in 1 .. old.total_size : new.data[i] = old.data[i]

\* C20: whatever the requested width and height and whatever the surface
\* capabilities, the extent of each swapchain created or recreated lies
\* within [min_image_extent, max_image_extent] in width and in height.
C20_ExtentWithinSurfaceBounds ==
    swapchain_extent.creates > 0 =>
        LET caps == CHOOSE c \in swapchain_extent.capabilities : TRUE
            extent == CHOOSE e \in swapchain_extent.extent : TRUE
        IN /\ caps.min_image_extent.width <= extent.width
           /\ extent.width <= caps.max_image_extent.width
           /\ caps.min_image_extent.height <= extent.height
           /\ extent.height <= caps.max_image_extent.height

\* A recreated swapchain requested wider than the maximum and lower than the
\* minimum the surface allows.
C20_Witness ==
    /\ swapchain_extent.creates = 2
    /\ LET caps == CHOOSE c \in swapchain_extent.capabilities : TRUE
           requested == CHOOSE r \in swapchain_extent.requested : TRUE
       IN /\ requested.width > caps.max_image_extent.width
          /\ requested.height < caps.min_image_extent.height
          /\ caps.min_image_extent.width < caps.max_image_extent.width

\* C22: a single begin_frame call, and a single end_frame call, recreates the
\* swapchain at most once, whatever the pending-resize flag, the acquire
\* result and the present result.
C22_AtMostOneRecreationPerCall ==
    last.op \in { "begin_frame", "end_frame" } => last.recreations <= 1

\* C23: once a swapchain has been recreated, no image view, depth image or
\* framebuffer of a previous chain is left: the recreation destroyed them
\* before it created the objects of the new chain.
C23_RecreationDestroysPreviousChain ==
    (phase = "running" /\ sc.creates >= 2 /\ sc.handler = sc.creates) =>
        LET previous == 1 .. (sc.creates - 1) IN
        /\ sc.liveViews \cap previous = {}
        /\ sc.liveDepth \cap previous = {}
        /\ sc.liveFbs \cap previous = {}

\* C25: whenever begin_frame begins the render pass, the framebuffers it
\* indexes exist and were created from the image views and the depth
\* attachment of the swapchain that is live at that moment.
C25_RenderPassUsesFramebufferOfLiveChain ==
    BeginProceeded =>
        /\ sc.fbState = "Running"
        /\ sc.fbFor = sc.handler
        /\ sc.fbFor \in sc.liveFbs

\* C21: a slot's command buffer is submitted only after, since the slot's
\* previous submit, it was reset, begun, had the render pass begun and ended,
\* and was ended, in that order and with no other call in between.
C21_SubmitFollowsFullRecording ==
    (last.op = "end_frame" /\ last.submit) =>
        last.calls_since_submit =
            << "reset", "begin", "renderpass_begin", "renderpass_end", "end" >>

\* The second submit of a slot, its command buffer recorded again after the
\* fence of the first submit was waited for.
C21_Witness ==
    /\ last.op = "end_frame" /\ last.submit
    /\ submitted >= 2
    /\ last.slot = 0

C26_AcquireSemaphoreHasNoPendingSignal ==
    (last.op = "begin_frame" /\ last.acquire_called) => ~last.semaphore_signaled_before

\* C28: every texture loaded from a file through load_texture carries a
\* generation; only the texture created as the default one carries none.
C28_LoadedTextureCarriesGeneration ==
    last.op = "swap_default_texture" => IsSome(last.loaded_generation)

\* C27: once a newly loaded texture has replaced the texture drawn with an
\* object, an update_object on a frame slot leaves in that slot's sampler
\* descriptor the texture now current, never a replaced one.
C27_UpdateRebindsReplacedTexture ==
    (object_shaders.last.op = "update_object" /\ object_shaders.last.res = "ok") =>
        LET id == CHOOSE i \in object_shaders.last.object_id : TRUE IN
        object_shaders.sampler_texture[id][object_shaders.last.slot]
            = object_shaders.texture.id

\* C30: update_object binds (and writes) only a descriptor set allocated for
\* that object id by object_shader_acquire_resources and not released since.
C30_UpdateUsesOwnedDescriptorSet ==
    (object_shaders.last.op = "update_object" /\ object_shaders.last.bound) =>
        LET id == CHOOSE i \in object_shaders.last.object_id : TRUE IN
        object_shaders.last.bound_set \in object_shaders.owned[id]

C31_ExtentIsRequestedSizeClamped ==
    swapchain_extent.creates > 0 =>
        LET caps == CHOOSE c \in swapchain_extent.capabilities : TRUE
            requested == CHOOSE r \in swapchain_extent.requested : TRUE
            extent == CHOOSE e \in swapchain_extent.extent : TRUE
        IN /\ extent.width = Min(caps.max_image_extent.width,
                                 Max(caps.min_image_extent.width, requested.width))
           /\ extent.height = Min(caps.max_image_extent.height,
                                  Max(caps.min_image_extent.height, requested.height))

\* C32: the image count requested for a swapchain is min_image_count + 1,
\* reduced to max_image_count when max_image_count > 0 and min_image_count + 1
\* exceeds it; it lies within the bounds the surface reports.
C32_ImageCountWithinReportedBounds ==
    swapchain_image_count.creates > 0 =>
        LET caps == CHOOSE c \in swapchain_image_count.capabilities : TRUE
            image_count == CHOOSE n \in swapchain_image_count.image_count : TRUE
        IN /\ image_count =
                IF caps.max_image_count > 0 /\ caps.min_image_count + 1 > caps.max_image_count
                THEN caps.max_image_count
                ELSE caps.min_image_count + 1
           /\ caps.min_image_count <= image_count
           /\ caps.max_image_count > 0 => image_count <= caps.max_image_count

\* A recreated swapchain on a surface whose maximum image count equals its
\* minimum, so that the cap applies.
C32_Witness ==
    /\ swapchain_image_count.creates = 2
    /\ LET caps == CHOOSE c \in swapchain_image_count.capabilities : TRUE
       IN /\ caps.max_image_count > 0
          /\ caps.min_image_count + 1 > caps.max_image_count
          /\ swapchain_image_count.image_count = Some(caps.max_image_count)

\* C33: physical_device_init selects a device only if it has a queue family
\* for each of graphics, present, compute and transfer, supports anisotropic
\* sampling and the swapchain extension, and reports non-empty surface-format
\* and present-mode lists.
C33_SelectedDeviceMeetsEveryRequirement ==
    (physical_device_selection.op = "physical_device_init"
        /\ physical_device_selection.res = "ok") =>
        LET d == physical_device_selection.devices[
                     unwrap(physical_device_selection.physical_device)]
        IN /\ d.graphics_family /\ d.present_family
           /\ d.compute_family /\ d.transfer_family
           /\ d.sampler_anisotropy /\ d.swapchain_extension
           /\ d.swapchain_complete

\* C34: for every assignment of graphics, present and transfer queue-family
\* indices, the queue create infos passed to logical-device creation contain
\* each distinct family index exactly once.
C34_EachFamilyRequestedOnce ==
    (device_queues.op = "device_init" /\ device_queues.res = "ok") =>
        LET infos == device_queues.queue_create_infos
            families == { unwrap(device_queues.graphics_family_index),
                          unwrap(device_queues.present_family_index),
                          unwrap(device_queues.transfer_family_index) }
        IN /\ Range(infos) = families
           /\ \A i, j \in 1 .. Len(infos) : infos[i] = infos[j] => i = j

\* C35: an upload whose destination buffer is in host-visible memory writes
\* the data directly through a memory map, creating no staging buffer and
\* recording no copy command; only uploads to device-local memory go through
\* a staging buffer, and that buffer is destroyed before the upload returns.
C35_StagingOnlyForDeviceLocalAndDestroyed ==
    upload.op \in { "load_data_into_buffer", "upload_data_range" } =>
        LET dst == unwrap(upload.dst) IN
        /\ dst.memory_flags = "HOST_VISIBLE" =>
               upload.staging_created = 0 /\ upload.copy_commands = 0
        /\ upload.staging_created = upload.staging_destroyed

\* C36: after upload_data_range(buffer, offset, size, data) succeeds, bytes
\* [offset, offset + size) of the destination equal the size bytes of data,
\* no byte outside that range is changed, and the staging buffer was accessed
\* within its own size bytes only.
C36_UploadWritesExactlyTheRange ==
    (upload.op = "upload_data_range" /\ upload.res = "ok") =>
        LET dst == unwrap(upload.dst)
            before == unwrap(upload.before)
        IN /\ \A i \in 1 .. dst.total_size :
                dst.data[i] = IF upload.offset < i /\ i <= upload.offset + upload.size
                              THEN upload.data[i - upload.offset]
                              ELSE before.data[i]
           /\ upload.staging_mapped \subseteq 1 .. upload.staging_size

\* C37: texture creation records on one one-shot command buffer, in this
\* order, a layout transition undefined -> transfer-dst, the buffer-to-image
\* copy and a layout transition transfer-dst -> shader-read-only, and waits
\* for that command buffer to complete, so that the image is in the
\* shader-read-only layout when texture creation returns.
C37_TextureIsShaderReadOnlyOnReturn ==
    (texture_creation.op = "vulkan_create_texture" /\ texture_creation.res = "ok") =>
        LET commands == texture_creation.commands
            Transition(c, old, new) ==
                /\ c.command = "cmd_pipeline_barrier"
                /\ \E i \in 1 .. Len(c.image_memory_barriers) :
                      c.image_memory_barriers[i] = [ old_layout |-> old, new_layout |-> new ]
        IN /\ Len(commands) = 3
           /\ Transition(commands[1], "UNDEFINED", "TRANSFER_DST_OPTIMAL")
           /\ commands[2].command = "cmd_copy_buffer_to_image"
           /\ Transition(commands[3], "TRANSFER_DST_OPTIMAL", "SHADER_READ_ONLY_OPTIMAL")
           /\ texture_creation.submitted /\ texture_creation.waited
           /\ texture_creation.image_layout = "SHADER_READ_ONLY_OPTIMAL"

\* C38: when begin_frame returns false, draw_frame performs no
\* update_global_state, no update_object and no end_frame for that frame,
\* does not increment the frame number and returns success; the frame number
\* increases by exactly one for each frame whose end_frame succeeds.
C38_SkippedFrameDoesNothing ==
    renderer_frontend.op = "draw_frame" =>
        LET frames == renderer_frontend.frames
            ended == { i \in 1 .. Len(frames) : frames[i].ended }
        IN /\ renderer_frontend.begin = "false" =>
                /\ renderer_frontend.calls = << "begin_frame" >>
                /\ renderer_frontend.frame_number = renderer_frontend.frame_number_before
                /\ renderer_frontend.res = "ok"
           /\ renderer_frontend.frame_number =
                 renderer_frontend.frame_number_before
                     + (IF frames[Len(frames)].ended THEN 1 ELSE 0)
           /\ renderer_frontend.frame_number = Cardinality(ended)

\* A frame skipped after one that was drawn, then one drawn again.
C38_Witness ==
    /\ renderer_frontend.op = "draw_frame"
    /\ Len(renderer_frontend.frames) = 3
    /\ renderer_frontend.frames[1].ended
    /\ renderer_frontend.frames[2].begin = "false"
    /\ renderer_frontend.frames[3].ended
    /\ renderer_frontend.frame_number = 2

\* C39: when event_fire dispatches an event, a listener callback that returns
\* true prevents every listener registered after it for that code from being
\* invoked for that event, and a callback that returns false lets the
\* dispatch continue with the next listener.
C39_TrueStopsDispatchFalseContinues ==
    event_system.op = "event_fire" =>
        \A i \in 1 .. Len(event_system.listeners) :
            LET earlier == { event_system.listeners[j] : j \in 1 .. (i - 1) } IN
            /\ (\E l \in earlier : contains(event_system.invoked, l)
                                     /\ event_system.returns[l] = "true")
                  => ~contains(event_system.invoked, event_system.listeners[i])
            /\ (\A l \in earlier : contains(event_system.invoked, l)
                                     /\ event_system.returns[l] = "false")
                  => contains(event_system.invoked, event_system.listeners[i])
                     \/ event_system.returns[event_system.listeners[i]] = "poisoned"

\* C40: after any sequence of event_register and event_unregister calls on an
\* initialized event system, each listener is stored at most once per code,
\* and is stored for a code exactly when its most recent call for that code
\* was a register; event_fire invokes only listeners stored for the fired
\* code, in registration order, each at most once per fire.
C40_ListenersStoredOncePerCode ==
    event_system.is_initialized =>
        /\ \A c \in EventCodes :
              LET stored == event_system.lookup_table[c] IN
              /\ \A i, j \in 1 .. Len(stored) : stored[i] = stored[j] => i = j
              /\ Range(stored) = event_system.registered[c]
        /\ event_system.op = "event_fire" =>
              /\ Len(event_system.invoked) <= Len(event_system.listeners)
              /\ \A i \in 1 .. Len(event_system.invoked) :
                    event_system.invoked[i] = event_system.listeners[i]
              /\ event_system.listeners = event_system.lookup_table[event_system.code]

\* A fire that invoked two listeners in the order of their registration, the
\* first of them registered again after an unregister.
C40_Witness ==
    /\ event_system.op = "event_fire"
    /\ event_system.code = "KeyPressed"
    /\ event_system.lookup_table["KeyPressed"] = << 2, 1 >>
    /\ event_system.invoked = << 2, 1 >>
    /\ event_system.lookup_table["ApplicationQuit"] = << 1 >>

====
